---------------------------- MODULE Spec2Model ----------------------------
(***************************************************************************)
(* Model of the endpoint registry / manifest generation subsystem of       *)
(* examples/python_code_agent (manifest_generator.py, asdl_generator.py,   *)
(* manifest_generator_md.py).                                              *)
(*                                                                         *)
(* Text is modelled as a sequence of one-character strings, so that the    *)
(* string operations of the code (lower, re.sub, strip, rstrip, +) are     *)
(* computed character by character.                                        *)
(***************************************************************************)
EXTENDS Integers, Sequences, FiniteSets, TLC

VARIABLES
    \* ---- slugify harness
    slugPc,        \* "in" before the call, "out" after slugify, "again" after a second call
    slugText,      \* the argument of slugify
    slugResult,    \* slugify(slugText)
    slugTwice,     \* slugify(slugify(slugText))
    \* ---- schema extraction harness: one registry's schema_definitions
    schemaDefs,    \* self.schema_definitions: name -> schema document
    schemaOps,     \* the number of calls made so far
    schemaModel,   \* the model of the _extract_schema call just made ("" when the
                   \* last call was none)
    schemaResult,  \* what that call returned (RecursionError when it raised)
    schemaBefore,  \* self.schema_definitions as the last call found it
    schemaWrote,   \* the entries the last call wrote: name -> schema document
    \* ---- the applications and their registries
    routes,            \* app.routes: application -> sequence of routes
    decorated,         \* the handlers that are wrappers carrying _endpoint_info
    routePath,         \* handler -> _endpoint_info.route_path
    registries,        \* the AgentRegistry objects, in the order of their creation
    agent_registries,  \* the global dict: slug -> registry, as <<slug, index>> pairs
    appRegistry,       \* app.state.agent_registry: a registry's index, 0 when unset
    installed,         \* the GET routes setup_agent_routes added to the top-level app
    manifest,          \* what the generate_manifest call of the last step returned
    manifestOf,        \* the registry of that call, 0 when the last step made none
    setupRuns,         \* the number of setup_agent_routes runs so far
    runsSinceChange,   \* the runs since the routes or the configuration last changed
    \* ---- one path computation of the walker
    pathPc,        \* "idle", "in", "mounted" or "registered"
    pathPrefix,    \* the prefix register_routes was called with
    pathMount,     \* str(route.path) of the mount
    pathRoute,     \* str(mounted_route.path) of the route of the mounted app
    pathMounted,   \* mounted_prefix
    pathFull,      \* full_path
    \* ---- the two renderers
    renderConfig,  \* what self.registry.generate_config() returns
    asdlResult,    \* what generate_asdl returned
    mdResult,      \* what generate_markdown returned
    \* ---- one application of agent_action
    decoSig,       \* the signature of the handler: its parameters' and its return annotation
    decoResult,    \* the wrapper returned, or the exception raised
    \* ---- a run of setup_agent_routes, statement by statement
    concPc,        \* "idle", or "walk" between the clearing and the last registration
    concTodo,      \* the registrations the walk has still to make
    concBefore,    \* every registry's action_endpoints when the run began
    concAfter,     \* every registry's action_endpoints the run is to leave
    \* ---- consecutive GETs of one agent's manifest
    manifestPrev,  \* what the generate_manifest call before the last returned, when
                   \* both were made on one registry with no other step in between
    \* ---- one call of LLMClient._make_request
    llmPc,         \* "idle", "loop" inside the for loop, "done" after return or raise
    llmAttempt,    \* the loop variable attempt
    llmPosts,      \* the number of http_client.post calls made
    llmReplies,    \* what the posts were answered with, in their order
    llmResult,     \* the value returned or the exception raised
    \* ---- code_agent_v2's session manager and its routes
    sessions,      \* session_manager.sessions: session id -> context
    sessNext,      \* the number of session ids uuid4 has made
    sessReply,     \* the answer to the last request
    sessUsed       \* the session ids execute_code_generation has succeeded for

slugVars == <<slugPc, slugText, slugResult, slugTwice>>
schemaVars == <<schemaDefs, schemaOps, schemaModel, schemaResult, schemaBefore, schemaWrote>>

regVars == <<routes, decorated, routePath, registries, agent_registries, appRegistry,
             installed, manifest, manifestOf, setupRuns, runsSinceChange>>

pathVars == <<pathPc, pathPrefix, pathMount, pathRoute, pathMounted, pathFull>>
renderVars == <<renderConfig, asdlResult, mdResult>>
decoVars == <<decoSig, decoResult>>
concVars == <<concPc, concTodo, concBefore, concAfter>>
reloadVars == <<manifestPrev>>
llmVars == <<llmPc, llmAttempt, llmPosts, llmReplies, llmResult>>
sessVars == <<sessions, sessNext, sessReply, sessUsed>>

vars == <<slugPc, slugText, slugResult, slugTwice,
          schemaDefs, schemaOps, schemaModel, schemaResult, schemaBefore, schemaWrote,
          routes, decorated, routePath, registries, agent_registries, appRegistry,
          installed, manifest, manifestOf, setupRuns, runsSinceChange,
          pathPc, pathPrefix, pathMount, pathRoute, pathMounted, pathFull,
          renderConfig, asdlResult, mdResult,
          decoSig, decoResult,
          concPc, concTodo, concBefore, concAfter,
          manifestPrev,
          llmPc, llmAttempt, llmPosts, llmReplies, llmResult,
          sessions, sessNext, sessReply, sessUsed>>

(***************************************************************************)
(* Characters and text helpers                                             *)
(***************************************************************************)
UpperCase == <<"A","B","C","D","E","F","G","H","I","J","K","L","M",
               "N","O","P","Q","R","S","T","U","V","W","X","Y","Z">>
LowerCase == <<"a","b","c","d","e","f","g","h","i","j","k","l","m",
               "n","o","p","q","r","s","t","u","v","w","x","y","z">>
Digits == {"0","1","2","3","4","5","6","7","8","9"}

Range(s) == {s[i] : i \in DOMAIN s}

\* str.lower() on one character
LowerChar(c) ==
    IF \E i \in DOMAIN UpperCase : UpperCase[i] = c
    THEN LowerCase[CHOOSE i \in DOMAIN UpperCase : UpperCase[i] = c]
    ELSE c

\* \w of the re module: letters, digits and the underscore
IsWordChar(c) == c \in Range(UpperCase) \cup Range(LowerCase) \cup Digits \cup {"_"}
\* \s of the re module
IsSpaceChar(c) == c \in {" ", "\t", "\n"}

RECURSIVE Filter(_, _)
\* the characters of s that are in the set keep, in order
Filter(s, keep) ==
    IF s = << >> THEN << >>
    ELSE IF Head(s) \in keep THEN <<Head(s)>> \o Filter(Tail(s), keep)
         ELSE Filter(Tail(s), keep)

RECURSIVE LStrip(_, _)
\* str.lstrip(chars)
LStrip(s, chars) ==
    IF s # << >> /\ Head(s) \in chars THEN LStrip(Tail(s), chars) ELSE s

RECURSIVE RStrip(_, _)
\* str.rstrip(chars)
RStrip(s, chars) ==
    IF s # << >> /\ s[Len(s)] \in chars
    THEN RStrip(SubSeq(s, 1, Len(s) - 1), chars) ELSE s

\* str.strip(chars)
Strip(s, chars) == RStrip(LStrip(s, chars), chars)

(***************************************************************************)
(* slugify (manifest_generator.py:47-52)                                   *)
(***************************************************************************)
\* text.lower()
SlugLower(text) == [i \in DOMAIN text |-> LowerChar(text[i])]

\* the mutant of SlugDelete that turns each other character into a hyphen
SlugDelete_tohyphen(text) ==
    [i \in DOMAIN text |->
        IF IsWordChar(text[i]) \/ IsSpaceChar(text[i]) THEN text[i] ELSE "-"]

\* re.sub(r'[^\w\s-]', '', text)
SlugDelete(text) ==
    Filter(text, {c \in Range(text) : IsWordChar(c) \/ IsSpaceChar(c) \/ c = "-"})

RECURSIVE SlugCollapse(_)
\* re.sub(r'[-\s]+', '-', text): every maximal run of hyphens and whitespace
\* becomes one hyphen
SlugCollapse(text) ==
    IF text = << >> THEN << >>
    ELSE IF Head(text) = "-" \/ IsSpaceChar(Head(text))
         THEN <<"-">> \o SlugCollapse(LStrip(text, {"-", " ", "\t", "\n"}))
         ELSE <<Head(text)>> \o SlugCollapse(Tail(text))

\* the mutant of slugify that forgets the final strip('-')
slugify_nostrip(text) == SlugCollapse(SlugDelete(SlugLower(text)))

slugify(text) == Strip(SlugCollapse(SlugDelete(SlugLower(text))), {"-"})

(***************************************************************************)
(* JSON documents.  A Python value is a tagged record: a dict is           *)
(* [t |-> "dict", v |-> function from keys to values], a list is           *)
(* [t |-> "list", v |-> sequence], a scalar is [t |-> "str", v |-> text].  *)
(* The string of a "$ref" key is kept split at "/" ([t |-> "path"]), so    *)
(* that split('/')[-1] is its last segment.                                *)
(***************************************************************************)
JDict(f) == [t |-> "dict", v |-> f]
JList(s) == [t |-> "list", v |-> s]
JStr(s) == [t |-> "str", v |-> s]
JRef(name) == JDict("$ref" :> [t |-> "path", v |-> <<"#", "$defs", name>>])
JNull == JDict([type |-> JStr("null")])
JString == JDict([type |-> JStr("string")])

\* what a call leaves when Python raises RecursionError
RecursionError == [t |-> "raise", v |-> "RecursionError"]

\* the depth of the Python call stack at which RecursionError is raised
RecursionLimit == 14

(***************************************************************************)
(* model.model_json_schema() of the models the registry is given.          *)
(* CodingStyle, ChatMessage, ChatInput, CodeRequirement, StyleGuide and    *)
(* GenerateCodeInput are models.py's (titles and descriptions left out);   *)
(* TreeNode refers to itself, Ping and Pong to each other, and Custom      *)
(* carries a hand-written reference to a definition it does not bring.     *)
(***************************************************************************)
StringList == JDict([type |-> JStr("array"), items |-> JString])

\* models.py:19-22: no required field, so the schema has no "required" key
CodingStyleBody ==
    JDict([type |-> JStr("object"),
           properties |-> JDict([patterns |-> JDict([anyOf |-> JList(<<StringList, JNull>>)]),
                                 conventions |-> JDict([anyOf |-> JList(<<StringList, JNull>>)])])])

\* models.py:24-27: no required field
StyleGuideBody ==
    JDict([type |-> JStr("object"),
           properties |-> JDict([formatting |-> JDict([default |-> JStr("black")]),
                                 maxLineLength |-> JDict([default |-> JStr("88")])])])

\* models.py:133-137
ChatMessageBody ==
    JDict([type |-> JStr("object"),
           properties |-> JDict([content |-> JString,
                                 role |-> JDict([type |-> JStr("string"),
                                                 default |-> JStr("user")])]),
           required |-> JList(<<JStr("content")>>)])

\* models.py:29-37
CodeRequirementBody ==
    JDict([type |-> JStr("object"),
           properties |-> JDict([description |-> JString,
                                 codingStyle |-> JDict([anyOf |-> JList(<<JRef("CodingStyle"), JNull>>)])]),
           required |-> JList(<<JStr("description")>>)])

TreeNodeBody ==
    JDict([type |-> JStr("object"),
           properties |-> JDict([label |-> JString,
                                 children |-> JDict([type |-> JStr("array"),
                                                     items |-> JRef("TreeNode")])]),
           required |-> JList(<<JStr("label")>>)])

PingBody ==
    JDict([type |-> JStr("object"),
           properties |-> JDict([pong |-> JDict([anyOf |-> JList(<<JRef("Pong"), JNull>>)])])])

PongBody ==
    JDict([type |-> JStr("object"),
           properties |-> JDict([ping |-> JDict([anyOf |-> JList(<<JRef("Ping"), JNull>>)])])])

\* models.py:145-150
ChatOutputBody ==
    JDict([type |-> JStr("object"),
           properties |-> JDict([response |-> JString,
                                 confidence |-> JDict([type |-> JStr("number")])]),
           required |-> JList(<<JStr("response"), JStr("confidence")>>)])

ModelNames == {"CodingStyle", "StyleGuide", "ChatInput", "ChatOutput", "GenerateCodeInput",
               "TreeNode", "Ping", "Custom"}

ModelSchema(model) ==
    CASE model = "CodingStyle" -> CodingStyleBody
      [] model = "StyleGuide" -> StyleGuideBody
      [] model = "ChatOutput" -> ChatOutputBody
      [] model = "ChatInput" ->
            JDict([type |-> JStr("object"),
                   properties |-> JDict([message |-> JString,
                                         context |-> JDict([anyOf |-> JList(<<JString, JNull>>)]),
                                         history |-> JDict([anyOf |-> JList(<<
                                             JDict([type |-> JStr("array"),
                                                    items |-> JRef("ChatMessage")]),
                                             JNull>>)])]),
                   required |-> JList(<<JStr("message")>>)]
                  @@ ("$defs" :> JDict([ChatMessage |-> ChatMessageBody])))
      [] model = "GenerateCodeInput" ->
            JDict([type |-> JStr("object"),
                   properties |-> JDict([codeRequirements |-> JRef("CodeRequirement"),
                                         styleGuide |-> JDict([anyOf |-> JList(<<JRef("StyleGuide"), JNull>>)]),
                                         includeTests |-> JDict([type |-> JStr("boolean"),
                                                                 default |-> JStr("true")])]),
                   required |-> JList(<<JStr("codeRequirements")>>)]
                  @@ ("$defs" :> JDict([CodeRequirement |-> CodeRequirementBody,
                                        CodingStyle |-> CodingStyleBody,
                                        StyleGuide |-> StyleGuideBody])))
      [] model = "TreeNode" ->
            JDict(("$defs" :> JDict([TreeNode |-> TreeNodeBody]))
                  @@ ("$ref" :> [t |-> "path", v |-> <<"#", "$defs", "TreeNode">>]))
      [] model = "Ping" ->
            JDict(("$defs" :> JDict([Ping |-> PingBody, Pong |-> PongBody]))
                  @@ ("$ref" :> [t |-> "path", v |-> <<"#", "$defs", "Ping">>]))
      [] model = "Custom" ->
            JDict([type |-> JStr("object"),
                   properties |-> JDict([payload |-> JRef("External"),
                                         note |-> JString]),
                   required |-> JList(<<JStr("payload")>>)])

\* the required field names a model declares
RequiredFields(model) ==
    CASE model = "ChatInput" -> {"message"}
      [] model = "ChatOutput" -> {"response", "confidence"}
      [] model = "GenerateCodeInput" -> {"codeRequirements"}
      [] model = "TreeNode" -> {"label"}
      [] model = "Custom" -> {"payload"}
      [] OTHER -> {}

(***************************************************************************)
(* AgentRegistry._inline_references (manifest_generator.py:177-201)        *)
(***************************************************************************)
\* schema['$ref'].split('/')[-1]
RefName(schema) == LET segments == schema.v["$ref"].v IN segments[Len(segments)]

Raised(x) == x.t = "raise"

RECURSIVE _inline_references(_, _, _)
\* the mutant that walks dict values only and returns list values as they are
_inline_references_nolists(schema, definitions, depth) ==
    IF depth > RecursionLimit THEN RecursionError
    ELSE IF schema.t # "dict" THEN schema
    ELSE IF "$ref" \in DOMAIN schema.v
    THEN IF RefName(schema) \in DOMAIN definitions
         THEN _inline_references(definitions[RefName(schema)], definitions, depth + 1)
         ELSE schema
    ELSE LET out == [key \in DOMAIN schema.v \ {"$defs"} |->
                        IF schema.v[key].t = "dict"
                        THEN _inline_references(schema.v[key], definitions, depth + 1)
                        ELSE schema.v[key]]
         IN IF \E key \in DOMAIN out : Raised(out[key]) THEN RecursionError
            ELSE JDict(out)

\* depth is the number of _inline_references frames on the call stack
_inline_references(schema, definitions, depth) ==
    IF depth > RecursionLimit THEN RecursionError
    ELSE IF schema.t # "dict" THEN schema
    ELSE IF "$ref" \in DOMAIN schema.v
    THEN IF RefName(schema) \in DOMAIN definitions
         THEN _inline_references(definitions[RefName(schema)], definitions, depth + 1)
         ELSE schema
    ELSE LET InlineList(value) ==
                 LET items == [i \in DOMAIN value.v |->
                                  _inline_references(value.v[i], definitions, depth + 1)]
                 IN IF \E i \in DOMAIN items : Raised(items[i]) THEN RecursionError
                    ELSE JList(items)
             out == [key \in DOMAIN schema.v \ {"$defs"} |->
                        IF schema.v[key].t = "list" THEN InlineList(schema.v[key])
                        ELSE IF schema.v[key].t = "dict"
                        THEN _inline_references(schema.v[key], definitions, depth + 1)
                        ELSE schema.v[key]]
         IN IF \E key \in DOMAIN out : Raised(out[key]) THEN RecursionError
            ELSE JDict(out)

(***************************************************************************)
(* AgentRegistry._extract_schema (manifest_generator.py:169-175), as the   *)
(* pair of its effect on self.schema_definitions and its return value.     *)
(***************************************************************************)
\* the mutant whose update keeps the entry of a key that is there already
_extract_schema_definitions_keepfirst(definitions, model) ==
    LET schema == ModelSchema(model)
    IN IF "$defs" \in DOMAIN schema.v THEN definitions @@ schema.v["$defs"].v
       ELSE definitions

\* self.schema_definitions after the call: dict.update keeps the other keys
\* and overwrites the keys of $defs
_extract_schema_definitions(definitions, model) ==
    LET schema == ModelSchema(model)
    IN IF "$defs" \in DOMAIN schema.v THEN schema.v["$defs"].v @@ definitions
       ELSE definitions

\* the mutant that inlines with self.schema_definitions as they were before
\* the update
_extract_schema_stale(definitions, model) ==
    LET schema == ModelSchema(model)
        stripped == JDict([key \in DOMAIN schema.v \ {"$defs"} |-> schema.v[key]])
    IN _inline_references(stripped, definitions, 1)

\* the returned schema, or RecursionError
_extract_schema(definitions, model) ==
    LET schema == ModelSchema(model)
        stripped == JDict([key \in DOMAIN schema.v \ {"$defs"} |-> schema.v[key]])
    IN _inline_references(stripped, _extract_schema_definitions(definitions, model), 1)

(***************************************************************************)
(* agent_action.decorator (manifest_generator.py:292-345).  A decoration   *)
(* is [params |-> the annotations of the handler's parameters,             *)
(* return |-> its return annotation, workflow_id, step_id |-> the two      *)
(* arguments of agent_action]; an annotation is                            *)
(* [kind, model, arg]: a pydantic model ("model", its name), a type        *)
(* without model_json_schema such as str ("plain"), no annotation          *)
(* ("none"), or a generic alias such as Optional[T] or List[T]             *)
(* ("generic", with arg its first argument: a model's name, or "" for a    *)
(* type that is no model).                                                 *)
(***************************************************************************)
Annotation(kind, model, arg) == [kind |-> kind, model |-> model, arg |-> arg]
NoAnnotation == Annotation("none", "", "")
Plain == Annotation("plain", "", "")
Model(model) == Annotation("model", model, "")
Generic(arg) == Annotation("generic", "", arg)

\* the value None
None == "None"
\* a type that is no subclass of BaseModel
NotAModel == "str"

\* lines 294-298: the annotation of the first parameter that has
\* model_json_schema, or None
InputModel(sig) ==
    IF \E i \in DOMAIN sig.params : sig.params[i].kind = "model"
    THEN sig.params[CHOOSE i \in DOMAIN sig.params :
                       /\ sig.params[i].kind = "model"
                       /\ \A j \in 1..(i - 1) : sig.params[j].kind # "model"].model
    ELSE None

\* lines 299-303: __args__[0] of a return annotation that has __origin__,
\* the return annotation itself otherwise
OutputModel(sig) ==
    CASE sig.return.kind = "generic" -> (IF sig.return.arg = "" THEN NotAModel ELSE sig.return.arg)
      [] sig.return.kind = "model" -> sig.return.model
      [] sig.return.kind = "plain" -> NotAModel
      [] OTHER -> None

ValidationError == [t |-> "raise", v |-> "ValidationError"]

\* lines 304-309: workflow_meta, a WorkflowMetadata when workflow_id and
\* step_id are both truthy (neither None nor ""), None otherwise
WorkflowMeta(workflow_id, step_id) ==
    IF workflow_id \notin {None, ""} /\ step_id \notin {None, ""}
    THEN [workflow_id |-> workflow_id, step_id |-> step_id]
    ELSE None

\* lines 96-102 and 310-317: ActionMetadata(..., workflow=workflow_meta).
\* The model has no field workflow, and a pydantic model ignores a keyword
\* it has no field for: workflow_id and step_id keep their default
ActionMetadata(workflow) == [workflow_id |-> None, step_id |-> None]

\* pydantic's check of a field declared Type[BaseModel] (lines 106-107)
IsModelType(type) == type \notin {None, NotAModel}

\* lines 310-323: ActionEndpointInfo(...), which validates its fields
ActionEndpointInfo(metadata, input_model, output_model) ==
    IF IsModelType(input_model) /\ IsModelType(output_model)
    THEN [t |-> "info", metadata |-> metadata,
          input_model |-> input_model, output_model |-> output_model,
          route_path |-> << >>]
    ELSE ValidationError

\* the mutant whose endpoint info takes any input_model and output_model
agent_action_unvalidated(sig) ==
    [t |-> "wrapper",
     _endpoint_info |-> [t |-> "info",
                         metadata |-> ActionMetadata(WorkflowMeta(sig.workflow_id, sig.step_id)),
                         input_model |-> InputModel(sig),
                         output_model |-> OutputModel(sig), route_path |-> << >>]]

\* the decorator applied to a handler: the wrapper that carries
\* _endpoint_info, or the exception ActionEndpointInfo raised
agent_action(sig) ==
    LET endpoint_info ==
            ActionEndpointInfo(ActionMetadata(WorkflowMeta(sig.workflow_id, sig.step_id)),
                               InputModel(sig), OutputModel(sig))
    IN IF endpoint_info.t = "raise" THEN endpoint_info
       ELSE [t |-> "wrapper", _endpoint_info |-> endpoint_info]

(***************************************************************************)
(* The applications, their routes and the decorated handlers.              *)
(* Application 0 is the top-level FastAPI app given to setup_agent_routes; *)
(* 1 and 2 are the sub-applications that are mounted.  A route is a mount  *)
(* [kind |-> "mount", path, target |-> application] or a leaf              *)
(* [kind |-> "leaf", path, target |-> handler].  An application is mounted *)
(* only into one of lower number, so the route tree has no cycle.          *)
(***************************************************************************)
Root == 0
SubApps == {1, 2}
Apps == {Root} \cup SubApps

\* handler 0 is a plain route handler (code_agent_v2.py:292 start_workflow);
\* 1 and 2 are the wrappers agent_action returns, which carry _endpoint_info
Handlers == {0, 1, 2}
Wrappers == {1, 2}
Decorated(h) == h \in decorated

\* agent_action's name argument
HandlerName(h) ==
    IF h = 1 THEN <<"C","h","a","t">>
    ELSE <<"S","e","t"," ","S","t","y","l","e">>
\* the input model: the first parameter annotation with model_json_schema
HandlerInput(h) == IF h = 1 THEN "ChatInput" ELSE "CodingStyle"
\* the output model: the return annotation
HandlerOutput(h) == IF h = 1 THEN "ChatOutput" ELSE "StyleGuide"
\* agent_action's schema_definitions argument, as <<key, model>> pairs
HandlerDefinitions(h) == IF h = 1 THEN << >> ELSE << <<"CodingStyle", "CodingStyle">> >>
\* agent_action's response_template_md argument is given
HandlerHasTemplate(h) == h = 1

\* the signature of the function the wrapper is made of
HandlerSignature(h) ==
    [params |-> <<Model(HandlerInput(h))>>, return |-> Model(HandlerOutput(h)),
     workflow_id |-> None, step_id |-> None]

\* the paths the applications are assembled with
MountPaths(parent, child) ==
    IF parent = Root /\ child = 1 THEN {<<"/","v">>, <<"/","u","/">>}
    ELSE {<<"/","w">>}
\* the applications a handler is made a route of, and the paths of its routes
RouteApps(h) == IF h = 1 THEN SubApps ELSE {1}
LeafPaths(h) ==
    IF h = 0 THEN {<<"/","h">>}
    ELSE IF h = 1 THEN {<<"/","b">>}
    ELSE {<<"/","a">>}

(***************************************************************************)
(* A Python dict in insertion order: a sequence of <<key, value>> pairs    *)
(* with pairwise distinct keys.                                            *)
(***************************************************************************)
DictKeys(d) == {d[i][1] : i \in DOMAIN d}
DictGet(d, k) == d[CHOOSE i \in DOMAIN d : d[i][1] = k][2]
\* d[k] = v: an old key keeps its place, a new key goes last
DictSet(d, k, v) ==
    IF k \in DictKeys(d)
    THEN [i \in DOMAIN d |-> IF d[i][1] = k THEN <<k, v>> ELSE d[i]]
    ELSE Append(d, <<k, v>>)

(***************************************************************************)
(* AgentRegistry.__init__ (manifest_generator.py:132-143)                  *)
(***************************************************************************)
AgentRegistry(identity) ==
    [base_url |-> RStrip(identity.base_url, {"/"}),
     name |-> identity.name,
     slug |-> slugify(identity.name),
     version |-> identity.version,
     description |-> identity.description,
     action_endpoints |-> << >>,
     schema_definitions |-> << >>,
     workflows |-> identity.workflows]

(***************************************************************************)
(* AgentRegistry.register_action_endpoint (manifest_generator.py:203-212)  *)
(***************************************************************************)
RECURSIVE RegisterDefinitions(_, _, _)
\* the loop over endpoint_info.schema_definitions.items(), from pair i on
RegisterDefinitions(definitions, pairs, i) ==
    IF i > Len(pairs) THEN definitions
    ELSE RegisterDefinitions(
             (pairs[i][1] :> ModelSchema(pairs[i][2])) @@ definitions, pairs, i + 1)

register_action_endpoint(registry, path, h) ==
    [registry EXCEPT
        !.action_endpoints = DictSet(@, path, h),
        !.schema_definitions = RegisterDefinitions(@, HandlerDefinitions(h), 1)]

(***************************************************************************)
(* setup_agent_routes.register_routes (manifest_generator.py:352-380).     *)
(* The walk threads st = [regs |-> the registries, rp |-> the route_path   *)
(* of every handler's endpoint info].                                      *)
(***************************************************************************)
\* mounted_prefix = prefix + str(route.path).rstrip("/")
MountedPrefix(prefix, path) == prefix \o RStrip(path, {"/"})

\* full_path = f"{mounted_prefix}{str(mounted_route.path)}"
FullPath(mounted_prefix, path) == mounted_prefix \o path

\* the mutant that leaves alone an endpoint whose route_path is already set
RegisterEndpoint_once(st, r, full_path, h) ==
    IF st.rp[h] # << >> THEN st
    ELSE [regs |-> [st.regs EXCEPT ![r] = register_action_endpoint(@, full_path, h)],
          rp |-> [st.rp EXCEPT ![h] = full_path]]

\* lines 371-377: endpoint_info.route_path = full_path, then
\* registry.register_action_endpoint(full_path, endpoint_info)
RegisterEndpoint(st, r, full_path, h) ==
    [regs |-> [st.regs EXCEPT ![r] = register_action_endpoint(@, full_path, h)],
     rp |-> [st.rp EXCEPT ![h] = full_path]]

RECURSIVE RegisterMountedRoutes(_, _, _, _, _)
\* lines 366-378: the loop over mounted_app.routes, from route j on
RegisterMountedRoutes(app, j, r, mounted_prefix, st) ==
    IF j > Len(routes[app]) THEN st
    ELSE LET route == routes[app][j]
         IN RegisterMountedRoutes(app, j + 1, r, mounted_prefix,
                IF route.kind = "leaf" /\ Decorated(route.target)
                THEN RegisterEndpoint(st, r, FullPath(mounted_prefix, route.path), route.target)
                ELSE st)

RECURSIVE register_routes_flat(_, _, _, _)
\* the mutant that does not walk the routes of a mounted application
register_routes_flat(app, i, prefix, st) ==
    IF i > Len(routes[app]) THEN st
    ELSE LET route == routes[app][i]
         IN IF route.kind = "mount"
            THEN LET mounted_app == route.target
                     mounted_prefix == MountedPrefix(prefix, route.path)
                     own == IF appRegistry[mounted_app] # 0
                            THEN RegisterMountedRoutes(mounted_app, 1, appRegistry[mounted_app],
                                                       mounted_prefix, st)
                            ELSE st
                 IN register_routes_flat(app, i + 1, prefix, own)
            ELSE register_routes_flat(app, i + 1, prefix, st)

RECURSIVE register_routes(_, _, _, _)
\* the loop over routes, from route i of app on: only mounts are looked at
register_routes(app, i, prefix, st) ==
    IF i > Len(routes[app]) THEN st
    ELSE LET route == routes[app][i]
         IN IF route.kind = "mount"
            THEN LET mounted_app == route.target
                     mounted_prefix == MountedPrefix(prefix, route.path)
                     own == IF appRegistry[mounted_app] # 0
                            THEN RegisterMountedRoutes(mounted_app, 1, appRegistry[mounted_app],
                                                       mounted_prefix, st)
                            ELSE st
                     nested == register_routes(mounted_app, 1, mounted_prefix, own)
                 IN register_routes(app, i + 1, prefix, nested)
            ELSE register_routes(app, i + 1, prefix, st)

RECURSIVE MountedRegistrations(_, _, _, _)
\* lines 366-378 as the list of the register_action_endpoint calls the loop
\* makes, each <<registry, full_path, handler>>
MountedRegistrations(app, j, r, mounted_prefix) ==
    IF j > Len(routes[app]) THEN << >>
    ELSE LET route == routes[app][j]
         IN (IF route.kind = "leaf" /\ Decorated(route.target)
             THEN << <<r, FullPath(mounted_prefix, route.path), route.target>> >>
             ELSE << >>)
            \o MountedRegistrations(app, j + 1, r, mounted_prefix)

RECURSIVE Registrations(_, _, _)
\* register_routes as the list of the calls it makes, in their order
Registrations(app, i, prefix) ==
    IF i > Len(routes[app]) THEN << >>
    ELSE LET route == routes[app][i]
         IN IF route.kind = "mount"
            THEN LET mounted_app == route.target
                     mounted_prefix == MountedPrefix(prefix, route.path)
                 IN (IF appRegistry[mounted_app] # 0
                     THEN MountedRegistrations(mounted_app, 1, appRegistry[mounted_app],
                                               mounted_prefix)
                     ELSE << >>)
                    \o Registrations(mounted_app, 1, mounted_prefix)
                    \o Registrations(app, i + 1, prefix)
            ELSE Registrations(app, i + 1, prefix)

(***************************************************************************)
(* setup_agent_routes (manifest_generator.py:347-456)                      *)
(***************************************************************************)
\* lines 384-385: every registry of the global dict gets an empty endpoint map
ClearRegistrations(regs) ==
    [r \in DOMAIN regs |->
        IF \E i \in DOMAIN agent_registries : agent_registries[i][2] = r
        THEN [regs[r] EXCEPT !.action_endpoints = << >>]
        ELSE regs[r]]

\* lines 382-387: the state after the clearing and the walk
WalkResult ==
    register_routes(Root, 1, << >>, [regs |-> ClearRegistrations(registries), rp |-> routePath])

GetRoute(kind, slug, r, action, h) ==
    [kind |-> kind, slug |-> slug, reg |-> r, action |-> action, handler |-> h]

\* lines 430-456: one action page per endpoint of the registry
ActionPages(slug, r, endpoints) ==
    [i \in DOMAIN endpoints |->
        GetRoute("action", slug, r, slugify(HandlerName(endpoints[i][2])), endpoints[i][2])]

RECURSIVE AgentRoutes(_, _)
\* lines 414-456: the loop over agent_registries.items(), from item i on
AgentRoutes(regs, i) ==
    IF i > Len(agent_registries) THEN << >>
    ELSE LET slug == agent_registries[i][1]
             r == agent_registries[i][2]
         IN <<GetRoute("manifest", slug, r, << >>, 0), GetRoute("dashboard", slug, r, << >>, 0)>>
            \o ActionPages(slug, r, regs[r].action_endpoints)
            \o AgentRoutes(regs, i + 1)

\* lines 389-456: the GET routes one run adds to the top-level app
InstalledRoutes(regs) ==
    <<GetRoute("agents.json", << >>, 0, << >>, 0), GetRoute("agents", << >>, 0, << >>, 0)>>
    \o AgentRoutes(regs, 1)

(***************************************************************************)
(* AgentRegistry.generate_manifest (manifest_generator.py:214-245) with    *)
(* _format_action_endpoint (145-167).  Of the manifest, metaInfo and       *)
(* capabilities are left out; of an action, actionType,                    *)
(* examples and description, which are copied from the decorator's         *)
(* arguments, and responseTemplateMD, which is the content of a file.      *)
(***************************************************************************)
NoManifest == [kind |-> "none"]

\* _format_action_endpoint: the endpoint data, and self.schema_definitions
\* after the two _extract_schema calls; what raises leaves kind "raise"
_format_action_endpoint(definitions, h) ==
    LET input == _extract_schema(definitions, HandlerInput(h))
        afterInput == _extract_schema_definitions(definitions, HandlerInput(h))
        output == _extract_schema(afterInput, HandlerOutput(h))
        afterOutput == _extract_schema_definitions(afterInput, HandlerOutput(h))
    IN IF Raised(input) THEN [kind |-> "raise", definitions |-> afterInput]
       ELSE IF Raised(output) THEN [kind |-> "raise", definitions |-> afterOutput]
       ELSE [kind |-> "action",
             definitions |-> afterOutput,
             data |-> [name |-> HandlerName(h),
                       slug |-> slugify(HandlerName(h)),
                       path |-> routePath[h],
                       method |-> "POST",
                       inputSchema |-> input,
                       outputSchema |-> output,
                       isMDResponseEnabled |-> HandlerHasTemplate(h)]]

RECURSIVE FormatActions(_, _, _, _)
\* line 219: the list comprehension over self.action_endpoints.values(),
\* from endpoint i on, with the actions formatted so far
FormatActions(definitions, endpoints, i, actions) ==
    IF i > Len(endpoints) THEN [kind |-> "actions", definitions |-> definitions, actions |-> actions]
    ELSE LET one == _format_action_endpoint(definitions, endpoints[i][2])
         IN IF one.kind = "raise" THEN one
            ELSE FormatActions(one.definitions, endpoints, i + 1, Append(actions, one.data))

\* lines 233-243: a workflow of the manifest; step.model_dump() keeps the
\* step as it is
WorkflowDump(w) ==
    [id |-> w.id, steps |-> w.steps, initial_step |-> w.initial_step]

\* the value generate_manifest returns; the key workflows is there when the
\* registry has workflows
generate_manifest(registry) ==
    LET formatted == FormatActions(registry.schema_definitions, registry.action_endpoints, 1, << >>)
        manifest_ == [kind |-> "manifest",
                      name |-> registry.name,
                      slug |-> registry.slug,
                      version |-> registry.version,
                      type |-> "external",
                      description |-> registry.description,
                      baseUrl |-> registry.base_url,
                      actions |-> formatted.actions]
    IN IF formatted.kind = "raise" THEN [kind |-> "raise"]
       ELSE IF registry.workflows # << >>
       THEN manifest_ @@ [workflows |-> [i \in DOMAIN registry.workflows |->
                                            WorkflowDump(registry.workflows[i])]]
       ELSE manifest_

\* the registry after generate_manifest: _extract_schema has updated
\* schema_definitions
generate_manifest_registry(registry) ==
    [registry EXCEPT !.schema_definitions =
        FormatActions(@, registry.action_endpoints, 1, << >>).definitions]

(***************************************************************************)
(* get_agents_manifest (manifest_generator.py:389-401): the body of the    *)
(* GET /agents.json route, which reads the global agent_registries.        *)
(***************************************************************************)
RECURSIVE AgentEntries(_, _)
\* the loop over agent_registries.values(), from item i on
AgentEntries(regs, i) ==
    IF i > Len(agent_registries) THEN << >>
    ELSE LET registry == regs[agent_registries[i][2]]
         IN <<[name |-> registry.name,
               slug |-> registry.slug,
               version |-> registry.version,
               manifestUrl |-> registry.base_url \o <<"/","a","g","e","n","t","s","/">>
                                  \o registry.slug \o <<".","j","s","o","n">>,
               dashboardUrl |-> registry.base_url \o <<"/","a","g","e","n","t","s","/">>
                                   \o registry.slug]>>
            \o AgentEntries(regs, i + 1)

get_agents_manifest(regs) == [kind |-> "agents", agents |-> AgentEntries(regs, 1)]

(***************************************************************************)
(* ASDLGenerator.generate_asdl (asdl_generator.py:171-199) and             *)
(* MarkdownGenerator.generate_markdown (manifest_generator_md.py:199-227). *)
(* The configuration is [key |-> "absent", "none" or "list", agents |-> the *)
(* list]: the key "agents" is missing, or holds None, or holds a list.  An *)
(* agent is [id, keys |-> the other keys its dict has, capabilities,       *)
(* actions].  A rendered text is the sequence of the fragments appended.   *)
(***************************************************************************)
NotRendered == [t |-> "none", v |-> << >>]
Text(fragments) == [t |-> "text", v |-> fragments]
KeyError == [t |-> "raise", v |-> <<"KeyError">>]
TypeError == [t |-> "raise", v |-> <<"TypeError">>]
IndexError == [t |-> "raise", v |-> <<"IndexError">>]

\* config.get("agents") is truthy: a list that is not empty
HasAgents(config) == config.key = "list" /\ config.agents # << >>

RECURSIVE Concat(_)
\* the concatenation of a sequence of sequences
Concat(parts) == IF parts = << >> THEN << >> ELSE Head(parts) \o Concat(Tail(parts))

\* asdl_generator.py:188-193, the interaction blocks of the actions
AsdlInteractions(agent) ==
    Concat([i \in DOMAIN agent.actions |-> <<"interaction ", agent.actions[i], "\n">>])

\* the mutant that reads the first agent without looking whether there is one
generate_asdl_unguarded(config) ==
    IF config.key # "list" THEN (IF config.key = "none" THEN TypeError ELSE KeyError)
    ELSE IF config.agents = << >> THEN IndexError
    ELSE LET agent == config.agents[1]
         IN IF ~({"baseURL", "description", "capabilities", "actions"} \subseteq agent.keys)
            THEN KeyError
            ELSE Text(<<"agent ", agent.id, " {\n", "category: ", "AI.AgentDefinition">>
                      \o AsdlInteractions(agent) \o <<"    }\n}">>)

generate_asdl(config) ==
    IF ~HasAgents(config) THEN Text(<<"# No agents configured">>)
    ELSE LET agent == config.agents[1]
         IN IF ~({"baseURL", "description", "capabilities", "actions"} \subseteq agent.keys)
            THEN KeyError
            ELSE Text(<<"agent ", agent.id, " {\n", "category: ", "AI.AgentDefinition">>
                      \o AsdlInteractions(agent) \o <<"    }\n}">>)

\* manifest_generator_md.py:208-225, the section of one agent
AgentMarkdown(agent) ==
    <<"## ", agent.id, "\n\n",
      "**Description:** ",
      IF "description" \in agent.keys THEN agent.id ELSE "No description provided.",
      "**Base URL:** ",
      IF "baseURL" \in agent.keys THEN agent.id ELSE "">>
    \o (IF "capabilities" \in agent.keys /\ agent.capabilities # << >>
        THEN <<"## Capabilities\n\n">> \o agent.capabilities
        ELSE << >>)
    \o (IF "actions" \in agent.keys /\ agent.actions # << >>
        THEN <<"## Available Endpoints\n\n">> \o agent.actions
        ELSE << >>)

generate_markdown(config) ==
    IF ~HasAgents(config) THEN Text(<<"No agents configured.">>)
    ELSE Text(<<"# AI Agents Service Documentation\n\n">>
              \o Concat([i \in DOMAIN config.agents |-> AgentMarkdown(config.agents[i])]))

(***************************************************************************)
(* The slugify harness: every text over SlugAlphabet up to MaxSlugLen      *)
(* characters, and the three texts of the documented examples.             *)
(***************************************************************************)
MaxSlugLen == 3
SlugAlphabet == {"A", "b", "1", "_", " ", "\t", "-", "/"}

TextPythonCodeAssistant ==
    <<"P","y","t","h","o","n"," ","C","o","d","e"," ",
      "A","s","s","i","s","t","a","n","t">>
TextSlashes == <<" "," ","A","/","/","/","B"," "," ">>

RECURSIVE TextsUpTo(_)
TextsUpTo(n) ==
    IF n = 0 THEN {<< >>}
    ELSE LET shorter == TextsUpTo(n - 1)
         IN shorter \cup {Append(t, c) : t \in {u \in shorter : Len(u) = n - 1},
                                         c \in SlugAlphabet}

SlugInputs == TextsUpTo(MaxSlugLen) \cup {TextPythonCodeAssistant, TextSlashes}

SlugIdle ==
    /\ slugPc = "idle"
    /\ slugText = << >>
    /\ slugResult = << >>
    /\ slugTwice = << >>

SchemaIdle ==
    /\ schemaDefs = << >>
    /\ schemaOps = 0
    /\ schemaModel = ""
    /\ schemaResult = JNull
    /\ schemaBefore = << >>
    /\ schemaWrote = << >>

\* no application, no registry
RegIdle ==
    /\ routes = [app \in Apps |-> << >>]
    /\ decorated = {}
    /\ routePath = [h \in Handlers |-> << >>]
    /\ registries = << >>
    /\ agent_registries = << >>
    /\ appRegistry = [app \in Apps |-> 0]
    /\ installed = << >>
    /\ manifest = NoManifest
    /\ manifestOf = 0
    /\ setupRuns = 0
    /\ runsSinceChange = 0

\* no path is being computed
PathIdle ==
    /\ pathPc = "idle"
    /\ pathPrefix = << >>
    /\ pathMount = << >>
    /\ pathRoute = << >>
    /\ pathMounted = << >>
    /\ pathFull = << >>

\* setup_agent_routes is not running
ConcIdle ==
    /\ concPc = "idle"
    /\ concTodo = << >>
    /\ concBefore = << >>
    /\ concAfter = << >>

\* no manifest was generated
ReloadIdle == manifestPrev = [kind |-> "none"]

\* _make_request is not called
LlmIdle ==
    /\ llmPc = "idle"
    /\ llmAttempt = 0
    /\ llmPosts = 0
    /\ llmReplies = << >>
    /\ llmResult = [t |-> "none"]

\* SessionManager.__init__ (code_agent_v2.py:259-260), and no request yet
SessIdle ==
    /\ sessions = << >>
    /\ sessNext = 0
    /\ sessReply = [op |-> "none"]
    /\ sessUsed = {}

\* the other components at rest
OthersIdle == ReloadIdle /\ LlmIdle /\ SessIdle

\* no handler is being decorated
DecoIdle ==
    /\ decoSig = [params |-> << >>, return |-> NoAnnotation,
                  workflow_id |-> None, step_id |-> None]
    /\ decoResult = [t |-> "none"]

\* nothing is rendered
RenderIdle ==
    /\ renderConfig = [key |-> "absent", agents |-> << >>]
    /\ asdlResult = NotRendered
    /\ mdResult = NotRendered

SlugInit ==
    /\ slugPc = "in"
    /\ slugText \in SlugInputs
    /\ slugResult = << >>
    /\ slugTwice = << >>
    /\ SchemaIdle
    /\ RegIdle
    /\ PathIdle
    /\ RenderIdle
    /\ DecoIdle
    /\ ConcIdle
    /\ OthersIdle

SlugCall ==
    /\ slugPc = "in"
    /\ slugResult' = slugify(slugText)
    /\ slugPc' = "out"
    /\ UNCHANGED <<slugText, slugTwice>>
    /\ UNCHANGED schemaVars
    /\ UNCHANGED <<regVars, pathVars, renderVars, decoVars, concVars, reloadVars, llmVars, sessVars>>

SlugCallAgain ==
    /\ slugPc = "out"
    /\ slugTwice' = slugify(slugResult)
    /\ slugPc' = "again"
    /\ UNCHANGED <<slugText, slugResult>>
    /\ UNCHANGED schemaVars
    /\ UNCHANGED <<regVars, pathVars, renderVars, decoVars, concVars, reloadVars, llmVars, sessVars>>

SlugNext == SlugCall \/ SlugCallAgain

SpecSlug == SlugInit /\ [][SlugNext]_vars

(***************************************************************************)
(* Properties of slugify                                                   *)
(***************************************************************************)
TextOf_python_code_assistant ==
    <<"p","y","t","h","o","n","-","c","o","d","e","-",
      "a","s","s","i","s","t","a","n","t">>

\* C7, as stated: slugify("Python Code Assistant") = "python-code-assistant",
\* slugify("  A///B  ") = "a-b" and slugify("") = "".
C7_SlugExamplesAsStated ==
    slugPc = "out" =>
        /\ slugText = TextPythonCodeAssistant => slugResult = TextOf_python_code_assistant
        /\ slugText = TextSlashes => slugResult = <<"a", "-", "b">>
        /\ slugText = << >> => slugResult = << >>

\* C7, amended: slugify("Python Code Assistant") = "python-code-assistant",
\* slugify("  A///B  ") = "ab" (the slashes are deleted, they separate
\* nothing) and slugify("") = "".
C7_SlugExamples ==
    slugPc = "out" =>
        /\ slugText = TextPythonCodeAssistant => slugResult = TextOf_python_code_assistant
        /\ slugText = TextSlashes => slugResult = <<"a", "b">>
        /\ slugText = << >> => slugResult = << >>

\* C7 witness: slugify was applied to "  A///B  "
C7_Witness == slugPc = "out" /\ slugText = TextSlashes /\ slugResult = <<"a", "b">>

IsSlugText(text) ==
    /\ \A i \in DOMAIN text :
          text[i] \in Range(LowerCase) \cup Digits \cup {"_", "-"}
    /\ text # << >> => text[1] # "-" /\ text[Len(text)] # "-"
    /\ \A i \in 1..(Len(text) - 1) : ~(text[i] = "-" /\ text[i + 1] = "-")

\* C8: slugify returns for every text one slug: lower case, of word
\* characters and hyphens only, no hyphen at either end, no two adjacent
\* hyphens, its word characters those of the text in order; and slugify of
\* a slug is that slug.
C8_SlugWellFormed ==
    /\ slugPc \in {"out", "again"} =>
          /\ IsSlugText(slugResult)
          /\ Filter(slugResult, Range(slugResult) \ {"-"})
                = Filter(SlugLower(slugText), {c \in Range(SlugLower(slugText)) : IsWordChar(c)})
    /\ slugPc = "again" => slugTwice = slugResult

\* C8 witness: a text with hyphens and whitespace at both ends was turned
\* into a non-empty slug, and slugify applied again
C8_Witness ==
    /\ slugPc = "again"
    /\ slugText = <<"-", "A", " ">>
    /\ slugResult = <<"a">>

(***************************************************************************)
(* The schema harness: one registry's schema_definitions, filled by        *)
(* register_action_endpoint's loop over an endpoint's schema_definitions   *)
(* (manifest_generator.py:208-211) and by _extract_schema.                 *)
(***************************************************************************)
MaxSchemaOps == 3
\* the keys and models of the schema_definitions an endpoint is decorated with
ExtraKeys == {"External", "ChatMessage"}
ExtraModels == {"CodingStyle", "ChatInput", "TreeNode"}

\* self.schema_definitions[key] = model.model_json_schema()
RegisterDefinition(definitions, key, model) ==
    (key :> ModelSchema(model)) @@ definitions

SchemaInit ==
    /\ SchemaIdle
    /\ SlugIdle
    /\ RegIdle
    /\ PathIdle
    /\ RenderIdle
    /\ DecoIdle
    /\ ConcIdle
    /\ OthersIdle

\* schema['$defs'] of line 173, the argument of update; nothing when the
\* schema has no $defs
SchemaDefs(model) ==
    IF "$defs" \in DOMAIN ModelSchema(model).v THEN ModelSchema(model).v["$defs"].v
    ELSE << >>

SchemaRegister(key, model) ==
    /\ schemaOps < MaxSchemaOps
    /\ schemaDefs' = RegisterDefinition(schemaDefs, key, model)
    /\ schemaBefore' = schemaDefs
    /\ schemaWrote' = (key :> ModelSchema(model))
    /\ schemaOps' = schemaOps + 1
    /\ schemaModel' = ""
    /\ schemaResult' = JNull
    /\ UNCHANGED slugVars
    /\ UNCHANGED <<regVars, pathVars, renderVars, decoVars, concVars, reloadVars, llmVars, sessVars>>

SchemaExtract(model) ==
    /\ schemaOps < MaxSchemaOps
    /\ schemaDefs' = _extract_schema_definitions(schemaDefs, model)
    /\ schemaBefore' = schemaDefs
    /\ schemaWrote' = SchemaDefs(model)
    /\ schemaResult' = _extract_schema(schemaDefs, model)
    /\ schemaModel' = model
    /\ schemaOps' = schemaOps + 1
    /\ UNCHANGED slugVars
    /\ UNCHANGED <<regVars, pathVars, renderVars, decoVars, concVars, reloadVars, llmVars, sessVars>>

SchemaNext ==
    \/ \E key \in ExtraKeys, model \in ExtraModels : SchemaRegister(key, model)
    \/ \E model \in ModelNames : SchemaExtract(model)

SpecSchema == SchemaInit /\ [][SchemaNext]_vars

(***************************************************************************)
(* Properties of schema extraction                                         *)
(***************************************************************************)
RECURSIVE RefsIn(_)
\* the names referenced by the $ref keys of a document, at any depth
RefsIn(doc) ==
    IF doc.t = "dict"
    THEN (IF "$ref" \in DOMAIN doc.v THEN {RefName(doc)} ELSE {})
         \cup UNION {RefsIn(doc.v[key]) : key \in DOMAIN doc.v \ {"$ref"}}
    ELSE IF doc.t = "list"
    THEN UNION {RefsIn(doc.v[i]) : i \in DOMAIN doc.v}
    ELSE {}

\* C4: reference inlining terminates on self-referential and mutually
\* referential definitions: every _extract_schema call returns a schema,
\* none fails.
C4_InliningReturnsSchema ==
    schemaModel # "" => ~Raised(schemaResult)

\* C5: a schema returned by _extract_schema keeps a $ref key only where the
\* referenced name is absent from the registry's schema_definitions; every
\* other reference, inside dicts and inside lists, has been replaced by the
\* referenced body (for ChatInput: the items of history are ChatMessage's
\* body, for GenerateCodeInput: the reference inside the inlined
\* CodeRequirement is CodingStyle's body).
C5_OnlyAbsentRefsRemain ==
    (schemaModel # "" /\ ~Raised(schemaResult)) =>
        /\ RefsIn(schemaResult) \cap DOMAIN schemaDefs = {}
        /\ schemaModel = "ChatInput" =>
              schemaResult.v.properties.v.history.v.anyOf.v[1].v.items
                  = schemaDefs["ChatMessage"]
        /\ schemaModel = "GenerateCodeInput" =>
              schemaResult.v.properties.v.codeRequirements.v.properties.v.codingStyle.v.anyOf.v[1]
                  = CodingStyleBody

\* C5 witness: a reference inside a list was inlined, and a reference to an
\* absent name was kept
C5_Witness ==
    \/ /\ schemaModel = "ChatInput"
       /\ schemaResult.v.properties.v.history.v.anyOf.v[1].v.items = ChatMessageBody
    \/ /\ schemaModel = "Custom"
       /\ "External" \in RefsIn(schemaResult)

\* C20: after every register_action_endpoint and _extract_schema call the
\* entry of each name the call wrote is the body it wrote, the entry of
\* every other name is the one from before the call, and there is no
\* further entry.
C20_LastWriterWins ==
    /\ DOMAIN schemaDefs = DOMAIN schemaBefore \cup DOMAIN schemaWrote
    /\ \A name \in DOMAIN schemaWrote : schemaDefs[name] = schemaWrote[name]
    /\ \A name \in DOMAIN schemaBefore \ DOMAIN schemaWrote :
          schemaDefs[name] = schemaBefore[name]

\* C20 witness: the last call wrote a name that had an entry with another
\* body, and left alone another name
C20_Witness ==
    /\ \E name \in DOMAIN schemaWrote \cap DOMAIN schemaBefore :
          schemaBefore[name] # schemaWrote[name]
    /\ DOMAIN schemaBefore \ DOMAIN schemaWrote # {}

(***************************************************************************)
(* The registry specification: agents are configured on sub-applications,  *)
(* applications are mounted and given routes, setup_agent_routes walks the *)
(* route tree of the top-level application, and manifests are generated.   *)
(***************************************************************************)
MaxRegistries == 2
MaxRoutes == 3
MaxSetups == 2

\* a WorkflowStep: its id, its type and the targets of its transitions
WorkflowStep(id, type, targets) == [id |-> id, type |-> type, transitions |-> targets]

\* code_agent_v2.py:30-70
CODE_GENERATION_WORKFLOW ==
    [id |-> "code_generation",
     steps |-> <<WorkflowStep("initiate", "start", <<"execute">>),
                 WorkflowStep("execute", "action", <<"end">>),
                 WorkflowStep("end", "end", << >>)>>,
     initial_step |-> "initiate"]

\* workflows the models of lines 13-38 are constructed with as well: an
\* initial_step that is no step, a transition to no step, two start steps
WorkflowNoInitial ==
    [id |-> "no_initial",
     steps |-> <<WorkflowStep("initiate", "start", <<"end">>), WorkflowStep("end", "end", << >>)>>,
     initial_step |-> "begin"]
WorkflowNoTarget ==
    [id |-> "no_target",
     steps |-> <<WorkflowStep("initiate", "start", <<"execute">>), WorkflowStep("end", "end", << >>)>>,
     initial_step |-> "initiate"]
WorkflowTwoStarts ==
    [id |-> "two_starts",
     steps |-> <<WorkflowStep("initiate", "start", <<"again">>),
                 WorkflowStep("again", "start", << >>)>>,
     initial_step |-> "initiate"]

\* the arguments configure_agent is called with; workflows = None makes the
\* registry's list empty
IdDemo == [name |-> <<"D","e","m","o">>, base_url |-> <<"h","/">>,
           version |-> <<"1">>, description |-> <<"d">>,
           workflows |-> <<CODE_GENERATION_WORKFLOW>>]
IdLower == [name |-> <<"d","e","m","o">>, base_url |-> <<"h">>,
            version |-> <<"2">>, description |-> <<"d">>,
            workflows |-> <<WorkflowNoInitial, WorkflowNoTarget, WorkflowTwoStarts>>]
IdBlank == [name |-> << >>, base_url |-> <<"/">>, version |-> << >>, description |-> << >>,
            workflows |-> << >>]
\* the agents each sub-application is configured as
Identities(app) == IF app = 1 THEN {IdDemo, IdBlank} ELSE {IdLower}

RouteCount == Len(routes[0]) + Len(routes[1]) + Len(routes[2])

Init ==
    /\ RegIdle
    /\ SlugIdle
    /\ SchemaIdle
    /\ PathIdle
    /\ RenderIdle
    /\ DecoIdle
    /\ ConcIdle
    /\ OthersIdle

\* the mutant whose decorator registers the endpoint in every registry
Decorate_registering(h) ==
    /\ ~Decorated(h)
    /\ LET wrapper == agent_action(HandlerSignature(h))
       IN /\ wrapper.t = "wrapper"
          /\ decorated' = decorated \cup {h}
          /\ routePath' = [routePath EXCEPT ![h] = wrapper._endpoint_info.route_path]
          /\ registries' = [r \in DOMAIN registries |->
                               register_action_endpoint(registries[r],
                                   wrapper._endpoint_info.route_path, h)]
    /\ manifest' = NoManifest
    /\ manifestOf' = 0
    /\ UNCHANGED <<routes, agent_registries, appRegistry, installed,
                   setupRuns, runsSinceChange>>
    /\ UNCHANGED <<slugVars, schemaVars, pathVars, renderVars, decoVars, concVars, reloadVars, llmVars, sessVars>>

\* @agent_action(...) over the def of a handler (code_agent.py:96-102): the
\* wrapper h comes to be, with its endpoint info
Decorate(h) ==
    /\ ~Decorated(h)
    /\ LET wrapper == agent_action(HandlerSignature(h))
       IN /\ wrapper.t = "wrapper"
          /\ decorated' = decorated \cup {h}
          /\ routePath' = [routePath EXCEPT ![h] = wrapper._endpoint_info.route_path]
    /\ manifest' = NoManifest
    /\ manifestOf' = 0
    /\ UNCHANGED <<routes, registries, agent_registries, appRegistry, installed,
                   setupRuns, runsSinceChange>>
    /\ UNCHANGED <<slugVars, schemaVars, pathVars, renderVars, decoVars, concVars, reloadVars, llmVars, sessVars>>

\* configure_agent (manifest_generator.py:250-280)
ConfigureAgent(app, identity) ==
    /\ Len(registries) < MaxRegistries
    /\ LET registry == AgentRegistry(identity)
           r == Len(registries) + 1
       IN /\ registries' = Append(registries, registry)
          /\ agent_registries' = DictSet(agent_registries, registry.slug, r)
          /\ appRegistry' = [appRegistry EXCEPT ![app] = r]
    /\ runsSinceChange' = 0
    /\ manifest' = NoManifest
    /\ manifestOf' = 0
    /\ UNCHANGED <<routes, decorated, routePath, installed, setupRuns>>
    /\ UNCHANGED <<slugVars, schemaVars, pathVars, renderVars, decoVars, concVars, reloadVars, llmVars, sessVars>>

\* parent.mount(path, child) (main.py:433)
Mount(parent, child, path) ==
    /\ RouteCount < MaxRoutes
    /\ routes' = [routes EXCEPT ![parent] = Append(@, [kind |-> "mount", path |-> path, target |-> child])]
    /\ runsSinceChange' = 0
    /\ manifest' = NoManifest
    /\ manifestOf' = 0
    /\ UNCHANGED <<decorated, routePath, registries, agent_registries, appRegistry, installed, setupRuns>>
    /\ UNCHANGED <<slugVars, schemaVars, pathVars, renderVars, decoVars, concVars, reloadVars, llmVars, sessVars>>

\* @app.post(path) over a handler, decorated by agent_action or not
\* (code_agent.py:95-119, code_agent_v2.py:292)
AddRoute(app, h, path) ==
    /\ RouteCount < MaxRoutes
    /\ h \in Wrappers => Decorated(h)
    /\ routes' = [routes EXCEPT ![app] = Append(@, [kind |-> "leaf", path |-> path, target |-> h])]
    /\ runsSinceChange' = 0
    /\ manifest' = NoManifest
    /\ manifestOf' = 0
    /\ UNCHANGED <<decorated, routePath, registries, agent_registries, appRegistry, installed, setupRuns>>
    /\ UNCHANGED <<slugVars, schemaVars, pathVars, renderVars, decoVars, concVars, reloadVars, llmVars, sessVars>>

\* setup_agent_routes(app) on the top-level application
SetupAgentRoutes ==
    /\ setupRuns < MaxSetups
    /\ LET st == WalkResult
       IN /\ registries' = st.regs
          /\ routePath' = st.rp
          /\ installed' = installed \o InstalledRoutes(st.regs)
    /\ setupRuns' = setupRuns + 1
    /\ runsSinceChange' = runsSinceChange + 1
    /\ manifest' = NoManifest
    /\ manifestOf' = 0
    /\ UNCHANGED <<routes, decorated, agent_registries, appRegistry>>
    /\ UNCHANGED <<slugVars, schemaVars, pathVars, renderVars, decoVars, concVars, reloadVars, llmVars, sessVars>>

\* a GET of /agents/{slug}.json: installed route i is get_agent_manifest,
\* which calls generate_manifest() of the registry it was defined with
\* (manifest_generator.py:416-418)
get_agent_manifest(i) ==
    /\ installed[i].kind = "manifest"
    /\ LET r == installed[i].reg
       IN /\ manifest' = generate_manifest(registries[r])
          /\ manifestOf' = r
          /\ registries' = [registries EXCEPT ![r] = generate_manifest_registry(@)]
    /\ UNCHANGED <<routes, decorated, routePath, agent_registries, appRegistry, installed,
                   setupRuns, runsSinceChange>>
    /\ UNCHANGED <<slugVars, schemaVars, pathVars, renderVars, decoVars, concVars, llmVars, sessVars>>

GetAgentManifest(i) ==
    /\ get_agent_manifest(i)
    /\ UNCHANGED reloadVars

\* a GET of /agents.json: installed route i is get_agents_manifest
\* (manifest_generator.py:389-401)
GetAgentsManifest(i) ==
    /\ installed[i].kind = "agents.json"
    /\ manifest' = get_agents_manifest(registries)
    /\ manifestOf' = 0
    /\ UNCHANGED <<routes, decorated, routePath, registries, agent_registries, appRegistry,
                   installed, setupRuns, runsSinceChange>>
    /\ UNCHANGED <<slugVars, schemaVars, pathVars, renderVars, decoVars, concVars, reloadVars, llmVars, sessVars>>

Next ==
    \/ \E h \in Wrappers : Decorate(h)
    \/ \E app \in SubApps : \E identity \in Identities(app) : ConfigureAgent(app, identity)
    \/ \E parent \in Apps, child \in SubApps :
          /\ parent < child
          /\ \E path \in MountPaths(parent, child) : Mount(parent, child, path)
    \/ \E h \in Handlers : \E app \in RouteApps(h), path \in LeafPaths(h) : AddRoute(app, h, path)
    \/ SetupAgentRoutes
    \/ \E i \in DOMAIN installed : GetAgentManifest(i)
    \/ \E i \in DOMAIN installed : GetAgentsManifest(i)

Spec == Init /\ [][Next]_vars

(***************************************************************************)
(* Properties of registration and of the manifest                          *)
(***************************************************************************)
\* the endpoints of registry r in the registries regs, as the mapping from
\* path key to <<handler, route_path of the handler's endpoint info>>
EndpointMap(regs, rp, r) ==
    [key \in DictKeys(regs[r].action_endpoints) |->
        <<DictGet(regs[r].action_endpoints, key),
          rp[DictGet(regs[r].action_endpoints, key)]>>]

\* C1: a run of setup_agent_routes on a route tree and a configuration that
\* have not changed since the run before leaves every registry's
\* action_endpoints as that run left it: the same path keys, for every key
\* the same endpoint with the same route_path, and no key twice.
C1_RerunKeepsEndpoints ==
    [][(setupRuns' = setupRuns + 1 /\ runsSinceChange >= 1) =>
          \A r \in DOMAIN registries :
             /\ EndpointMap(registries', routePath', r) = EndpointMap(registries, routePath, r)
             /\ Len(registries'[r].action_endpoints)
                   = Cardinality(DictKeys(registries'[r].action_endpoints))]_vars

\* C1 witness: setup_agent_routes ran twice on the same tree, in which a
\* registry has two endpoints
C1_Witness ==
    /\ runsSinceChange = 2
    /\ \E r \in DOMAIN registries : Len(registries[r].action_endpoints) = 2

\* the place of a character in the order of the code points
Ord(c) == IF c = "/" THEN 0 ELSE CHOOSE i \in DOMAIN LowerCase : LowerCase[i] = c

RECURSIVE TextLess(_, _)
\* a < b for two Python strings of "/" and lower case letters
TextLess(a, b) ==
    IF b = << >> THEN FALSE
    ELSE IF a = << >> THEN TRUE
    ELSE IF Head(a) = Head(b) THEN TextLess(Tail(a), Tail(b))
    ELSE Ord(Head(a)) < Ord(Head(b))

\* C2: the actions of every manifest generate_manifest returns are sorted
\* ascending by path, in whatever order the endpoints were registered.
C2_ActionsSortedByPath ==
    manifest.kind = "manifest" =>
        \A i, j \in DOMAIN manifest.actions :
            i < j => ~TextLess(manifest.actions[j].path, manifest.actions[i].path)

\* a registry that was not configured: its base URL, name, version or
\* description is empty
Unconfigured(registry) ==
    \/ registry.base_url = << >>
    \/ registry.name = << >>
    \/ registry.version = << >>
    \/ registry.description = << >>

\* C6: generate_manifest on a registry whose base URL, name, version or
\* description is empty returns no manifest.
C6_UnconfiguredReturnsNoManifest ==
    (manifestOf # 0 /\ Unconfigured(registries[manifestOf])) => manifest.kind # "manifest"

\* C9: in every generated manifest, the inputSchema of an action whose input
\* model has no required field has the key required, with the empty list.
C9_RequiredIsEmptyList ==
    manifest.kind = "manifest" =>
        \A i \in DOMAIN manifest.actions : \A h \in Handlers :
            (/\ Decorated(h)
             /\ manifest.actions[i].name = HandlerName(h)
             /\ RequiredFields(HandlerInput(h)) = {}) =>
                /\ "required" \in DOMAIN manifest.actions[i].inputSchema.v
                /\ manifest.actions[i].inputSchema.v.required = JList(<< >>)

\* two values of one registry agree on every field
SameRegistry(a, b) ==
    /\ a.base_url = b.base_url
    /\ a.name = b.name
    /\ a.slug = b.slug
    /\ a.version = b.version
    /\ a.description = b.description
    /\ a.action_endpoints = b.action_endpoints
    /\ a.workflows = b.workflows
    /\ DOMAIN a.schema_definitions = DOMAIN b.schema_definitions
    /\ \A name \in DOMAIN a.schema_definitions :
          a.schema_definitions[name] = b.schema_definitions[name]

\* C12: a call of generate_manifest leaves the registry as it was: its
\* identity fields, action_endpoints and schema_definitions, and the
\* endpoint infos, are the same after the call as before.
C12_ManifestOnlyReads ==
    [][manifestOf' # 0 =>
          /\ \A r \in DOMAIN registries : SameRegistry(registries'[r], registries[r])
          /\ routePath' = routePath]_vars

\* the names configure_agent was called with
ConfiguredNames == {registries[r].name : r \in DOMAIN registries}

\* C14: the listing GET /agents.json returns has exactly one entry per agent
\* that was configured, also when two of the configured names have the same
\* slug.
C14_OneEntryPerConfiguredAgent ==
    manifest.kind = "agents" =>
        /\ Len(manifest.agents) = Cardinality(ConfiguredNames)
        /\ \A name \in ConfiguredNames :
              Cardinality({i \in DOMAIN manifest.agents : manifest.agents[i].name = name}) = 1

RECURSIVE EnclosedLeaves(_, _, _, _)
\* the decorated leaves of application app from route j on, each with the
\* registry r of its nearest enclosing agent: <<r, full path, handler>>
EnclosedLeaves(app, j, r, mounted_prefix) ==
    IF j > Len(routes[app]) THEN {}
    ELSE LET route == routes[app][j]
         IN (IF route.kind = "leaf" /\ Decorated(route.target) /\ r # 0
             THEN {<<r, FullPath(mounted_prefix, route.path), route.target>>}
             ELSE {})
            \cup EnclosedLeaves(app, j + 1, r, mounted_prefix)

RECURSIVE NearestAgent(_, _, _, _)
\* the route tree below application app from route i on, where nearest is
\* the registry of the nearest agent sub-application app is mounted in, or 0
NearestAgent(app, i, prefix, nearest) ==
    IF i > Len(routes[app]) THEN {}
    ELSE LET route == routes[app][i]
         IN IF route.kind = "mount"
            THEN LET mounted_app == route.target
                     mounted_prefix == MountedPrefix(prefix, route.path)
                     r == IF appRegistry[mounted_app] # 0 THEN appRegistry[mounted_app]
                          ELSE nearest
                 IN EnclosedLeaves(mounted_app, 1, r, mounted_prefix)
                    \cup NearestAgent(mounted_app, 1, mounted_prefix, r)
                    \cup NearestAgent(app, i + 1, prefix, nearest)
            ELSE NearestAgent(app, i + 1, prefix, nearest)

\* C15: after setup_agent_routes, every decorated leaf of the route tree is
\* an endpoint of the registry of its nearest enclosing agent
\* sub-application, under its full path, and no registry has another
\* endpoint.
C15_LeafGoesToNearestAgent ==
    runsSinceChange >= 1 =>
        \A r \in DOMAIN registries :
            {<<r, registries[r].action_endpoints[i][1], registries[r].action_endpoints[i][2]>> :
                 i \in DOMAIN registries[r].action_endpoints}
              = {e \in NearestAgent(Root, 1, << >>, 0) : e[1] = r}

\* the ids of the steps of a workflow
StepIds(w) == {w.steps[i].id : i \in DOMAIN w.steps}

\* the invariant of a workflow
WellFormed(w) ==
    /\ w.initial_step \in StepIds(w)
    /\ \A i \in DOMAIN w.steps : \A j \in DOMAIN w.steps[i].transitions :
          w.steps[i].transitions[j] \in StepIds(w)
    /\ Cardinality({i \in DOMAIN w.steps : w.steps[i].type = "start"}) = 1

\* C16: in every workflow a manifest holds, taken from its registry,
\* initial_step is the id of a step, the target of every transition is the
\* id of a step, and exactly one step has the type start.
C16_WorkflowsWellFormed ==
    (manifest.kind = "manifest" /\ "workflows" \in DOMAIN manifest) =>
        \A i \in DOMAIN manifest.workflows : WellFormed(manifest.workflows[i])

RECURSIVE AgentsInTree(_, _)
\* the registries of the agent sub-applications the walk of application app
\* comes by, from route i on
AgentsInTree(app, i) ==
    IF i > Len(routes[app]) THEN {}
    ELSE LET route == routes[app][i]
         IN IF route.kind = "mount"
            THEN (IF appRegistry[route.target] # 0 THEN {appRegistry[route.target]} ELSE {})
                 \cup AgentsInTree(route.target, 1)
                 \cup AgentsInTree(app, i + 1)
            ELSE AgentsInTree(app, i + 1)

\* C17: after setup_agent_routes the slug-to-registry table holds exactly
\* the agents of the walked route tree, each under its slug, and no agent
\* that was configured but is not in the tree.
C17_TableRebuiltFromTree ==
    runsSinceChange >= 1 =>
        {<<agent_registries[i][1], agent_registries[i][2]>> : i \in DOMAIN agent_registries}
          = {<<registries[r].slug, r>> : r \in AgentsInTree(Root, 1)}

\* C18: once the route_path of a handler's endpoint info is set, no
\* operation sets it to another path, a later run of setup_agent_routes
\* included.
C18_RoutePathAssignedOnce ==
    [][\A h \in Handlers : routePath[h] # << >> => routePath'[h] = routePath[h]]_vars

\* C19: a step in which agent_action decorates a handler changes the
\* handler's wrapper and nothing else: the slug-to-registry table, every
\* registry, the routes of the applications and the endpoint infos of the
\* other handlers are as before.
C19_DecorationOnlyAttaches ==
    [][decorated' # decorated =>
          /\ agent_registries' = agent_registries
          /\ Len(registries') = Len(registries)
          /\ \A r \in DOMAIN registries : SameRegistry(registries'[r], registries[r])
          /\ routes' = routes
          /\ appRegistry' = appRegistry
          /\ installed' = installed
          /\ \A h \in decorated : routePath'[h] = routePath[h]]_vars

\* C19 witness: handler 2 is decorated and no route is made of it, while
\* the table has an agent whose registry has the endpoint of handler 1
C19_Witness ==
    /\ decorated = Wrappers
    /\ routePath[2] = << >>
    /\ \A app \in Apps : \A i \in DOMAIN routes[app] :
          routes[app][i].kind = "leaf" => routes[app][i].target # 2
    /\ \E i \in DOMAIN agent_registries :
          LET endpoints == registries[agent_registries[i][2]].action_endpoints
          IN /\ endpoints # << >>
             /\ \A j \in DOMAIN endpoints : endpoints[j][2] = 1

\* every decorated leaf of agent application app is an endpoint of the
\* application's registry under prefix followed by the leaf's path
LeavesRegistered(app, prefix) ==
    appRegistry[app] # 0 =>
        \A j \in DOMAIN routes[app] :
            (routes[app][j].kind = "leaf" /\ Decorated(routes[app][j].target)) =>
                LET endpoints == registries[appRegistry[app]].action_endpoints
                    key == prefix \o routes[app][j].path
                IN /\ key \in DictKeys(endpoints)
                   /\ DictGet(endpoints, key) = routes[app][j].target

\* C22: after setup_agent_routes, the decorated leaves of an agent
\* sub-application mounted in the top-level application, and of one mounted
\* in a sub-application that is mounted there, are endpoints of its registry
\* under the mount paths, each without its trailing slashes, followed by the
\* leaf's path.
C22_NestedMountsRegistered ==
    runsSinceChange >= 1 =>
        \A i \in DOMAIN routes[Root] :
            routes[Root][i].kind = "mount" =>
                LET outer == routes[Root][i].target
                    m1 == RStrip(routes[Root][i].path, {"/"})
                IN /\ LeavesRegistered(outer, m1)
                   /\ \A k \in DOMAIN routes[outer] :
                         routes[outer][k].kind = "mount" =>
                             LeavesRegistered(routes[outer][k].target,
                                              m1 \o RStrip(routes[outer][k].path, {"/"}))

\* C22 witness: an agent sub-application mounted at /w inside the one
\* mounted at /u/ has its route /b registered as /u/w/b
C22_Witness ==
    /\ runsSinceChange >= 1
    /\ \E i \in DOMAIN routes[Root] :
          routes[Root][i] = [kind |-> "mount", path |-> <<"/","u","/">>, target |-> 1]
    /\ \E k \in DOMAIN routes[1] :
          routes[1][k] = [kind |-> "mount", path |-> <<"/","w">>, target |-> 2]
    /\ appRegistry[2] # 0
    /\ <<"/","u","/","w","/","b">> \in DictKeys(registries[appRegistry[2]].action_endpoints)

\* C25: after setup_agent_routes, the endpoint info under every key of
\* every registry's action_endpoints has that key as its route_path, also
\* when a sub-application is mounted at two prefixes.
C25_RoutePathIsKey ==
    runsSinceChange >= 1 =>
        \A r \in DOMAIN registries : \A i \in DOMAIN registries[r].action_endpoints :
            routePath[registries[r].action_endpoints[i][2]] = registries[r].action_endpoints[i][1]

\* the slugs of the installed /agents/{slug}.json routes
InstalledSlugs == {installed[i].slug : i \in {j \in DOMAIN installed : installed[j].kind = "manifest"}}

\* C26: every agent the listing of GET /agents.json names has its route
\* /agents/{slug}.json installed, also an agent that was configured after
\* the last run of setup_agent_routes.
C26_ListedAgentHasManifestRoute ==
    manifest.kind = "agents" =>
        \A i \in DOMAIN manifest.agents : manifest.agents[i].slug \in InstalledSlugs

(***************************************************************************)
(* The path harness: register_routes' two concatenations, on every mount   *)
(* path and route path of up to MaxPathLen characters and on the paths of  *)
(* the documented example.  Starlette takes "" or a text that begins with  *)
(* "/" as the path of a mount, and a text that begins with "/" as the path *)
(* of a route.                                                             *)
(***************************************************************************)
MaxPathLen == 3
PathAlphabet == {"/", "a"}

RECURSIVE PathsUpTo(_)
PathsUpTo(n) ==
    IF n = 0 THEN {<< >>}
    ELSE LET shorter == PathsUpTo(n - 1)
         IN shorter \cup {Append(t, c) : t \in {u \in shorter : Len(u) = n - 1},
                                         c \in PathAlphabet}

\* /v1/code_agent and /code_agent/python/chat
ExampleMount == <<"/","v","1","/","c","o","d","e","_","a","g","e","n","t">>
ExampleRoute == <<"/","c","o","d","e","_","a","g","e","n","t","/",
                  "p","y","t","h","o","n","/","c","h","a","t">>
ExampleFull == ExampleMount \o ExampleRoute

RoutePathInputs == {t \in PathsUpTo(MaxPathLen) : t # << >> /\ t[1] = "/"} \cup {ExampleRoute}
MountPathInputs == RoutePathInputs \cup {<< >>, ExampleMount, Append(ExampleMount, "/")}
\* the prefix of the top-level call, and the prefix of a call for a nested mount
PrefixInputs == {<< >>, <<"/","a">>}

PathInit ==
    /\ pathPc = "in"
    /\ pathPrefix \in PrefixInputs
    /\ pathMount \in MountPathInputs
    /\ pathRoute \in RoutePathInputs
    /\ pathMounted = << >>
    /\ pathFull = << >>
    /\ SlugIdle
    /\ SchemaIdle
    /\ RegIdle
    /\ RenderIdle
    /\ DecoIdle
    /\ ConcIdle
    /\ OthersIdle

\* manifest_generator.py:359
PathMount ==
    /\ pathPc = "in"
    /\ pathMounted' = MountedPrefix(pathPrefix, pathMount)
    /\ pathPc' = "mounted"
    /\ UNCHANGED <<pathPrefix, pathMount, pathRoute, pathFull>>
    /\ UNCHANGED <<slugVars, schemaVars, regVars, renderVars, decoVars, concVars, reloadVars, llmVars, sessVars>>

\* manifest_generator.py:372
PathRegister ==
    /\ pathPc = "mounted"
    /\ pathFull' = FullPath(pathMounted, pathRoute)
    /\ pathPc' = "registered"
    /\ UNCHANGED <<pathPrefix, pathMount, pathRoute, pathMounted>>
    /\ UNCHANGED <<slugVars, schemaVars, regVars, renderVars, decoVars, concVars, reloadVars, llmVars, sessVars>>

PathNext == PathMount \/ PathRegister

SpecPath == PathInit /\ [][PathNext]_vars

RECURSIVE Segments(_)
\* the non-empty segments of a path between its separators
Segments(path) ==
    IF path = << >> THEN << >>
    ELSE IF Head(path) = "/" THEN Segments(Tail(path))
    ELSE LET n == IF \E i \in DOMAIN path : path[i] = "/"
                  THEN (CHOOSE i \in DOMAIN path :
                           path[i] = "/" /\ \A j \in 1..(i - 1) : path[j] # "/") - 1
                  ELSE Len(path)
         IN <<SubSeq(path, 1, n)>> \o Segments(SubSeq(path, n + 1, Len(path)))

\* C3: the full path the walker registers is the mount prefix followed by
\* the route path: it begins with exactly one separator, has no two
\* separators in a row, and its segments are those of the prefix, of the
\* mount path and of the route path in order; /v1/code_agent with
\* /code_agent/python/chat gives /v1/code_agent/code_agent/python/chat,
\* with or without a trailing slash on the mount path.
C3_FullPathNormalized ==
    pathPc = "registered" =>
        /\ pathFull # << >>
        /\ pathFull[1] = "/"
        /\ \A i \in 1..(Len(pathFull) - 1) : ~(pathFull[i] = "/" /\ pathFull[i + 1] = "/")
        /\ Segments(pathFull) = Segments(pathPrefix) \o Segments(pathMount) \o Segments(pathRoute)
        /\ (pathPrefix = << >> /\ Segments(pathMount) = Segments(ExampleMount)
               /\ pathRoute = ExampleRoute) => pathFull = ExampleFull

(***************************************************************************)
(* The render harness: the two renderers on every configuration of up to   *)
(* MaxAgents agents.                                                       *)
(***************************************************************************)
MaxAgents == 3

AllKeys == {"baseURL", "description", "capabilities", "actions"}
AgentFull == [id |-> "coder", keys |-> AllKeys,
              capabilities |-> <<"python">>, actions |-> <<"chat">>]
AgentNoActions == [id |-> "quiet", keys |-> AllKeys, capabilities |-> << >>, actions |-> << >>]
AgentBare == [id |-> "bare", keys |-> {}, capabilities |-> << >>, actions |-> << >>]
AgentInputs == {AgentFull, AgentNoActions, AgentBare}

RECURSIVE AgentListsUpTo(_)
AgentListsUpTo(n) ==
    IF n = 0 THEN {<< >>}
    ELSE LET shorter == AgentListsUpTo(n - 1)
         IN shorter \cup {Append(l, a) : l \in {u \in shorter : Len(u) = n - 1},
                                         a \in AgentInputs}

ConfigInputs ==
    {[key |-> "absent", agents |-> << >>], [key |-> "none", agents |-> << >>]}
    \cup {[key |-> "list", agents |-> l] : l \in AgentListsUpTo(MaxAgents)}

RenderInit ==
    /\ renderConfig \in ConfigInputs
    /\ asdlResult = NotRendered
    /\ mdResult = NotRendered
    /\ SlugIdle
    /\ SchemaIdle
    /\ RegIdle
    /\ PathIdle
    /\ DecoIdle
    /\ ConcIdle
    /\ OthersIdle

\* a GET of /agents.asdl (asdl_generator.py:206-211)
RenderAsdl ==
    /\ asdlResult = NotRendered
    /\ asdlResult' = generate_asdl(renderConfig)
    /\ UNCHANGED <<renderConfig, mdResult>>
    /\ UNCHANGED <<slugVars, schemaVars, regVars, pathVars, decoVars, concVars, reloadVars, llmVars, sessVars>>

\* a GET of /agents.md (manifest_generator_md.py:234-240)
RenderMarkdown ==
    /\ mdResult = NotRendered
    /\ mdResult' = generate_markdown(renderConfig)
    /\ UNCHANGED <<renderConfig, asdlResult>>
    /\ UNCHANGED <<slugVars, schemaVars, regVars, pathVars, decoVars, concVars, reloadVars, llmVars, sessVars>>

RenderNext == RenderAsdl \/ RenderMarkdown

SpecRender == RenderInit /\ [][RenderNext]_vars

IsPlaceholder(result) ==
    /\ result.t = "text"
    /\ result.v # << >>
    /\ \A i \in DOMAIN result.v : result.v[i] # ""

\* C10: on a configuration without agents (the key agents missing, None or
\* an empty list) generate_asdl and generate_markdown each return a text
\* that is not empty, and neither raises.
C10_EmptyConfigRendersPlaceholder ==
    ~HasAgents(renderConfig) =>
        /\ asdlResult # NotRendered => IsPlaceholder(asdlResult)
        /\ mdResult # NotRendered => IsPlaceholder(mdResult)

\* C10 witness: both renderers ran on the configuration {"agents": []}
C10_Witness ==
    /\ renderConfig = [key |-> "list", agents |-> << >>]
    /\ asdlResult = Text(<<"# No agents configured">>)
    /\ mdResult = Text(<<"No agents configured.">>)

(***************************************************************************)
(* The decoration harness: agent_action applied to a handler of every      *)
(* signature of up to MaxParams parameters.                                *)
(***************************************************************************)
MaxParams == 2

ParamAnnotations == {Model("ChatInput"), Model("CodingStyle"), Plain, NoAnnotation,
                     Generic("ChatInput")}
ReturnAnnotations == {Model("ChatOutput"), Generic("ChatOutput"), Generic(""), Plain,
                      NoAnnotation}

RECURSIVE ParamsUpTo(_)
ParamsUpTo(n) ==
    IF n = 0 THEN {<< >>}
    ELSE LET shorter == ParamsUpTo(n - 1)
         IN shorter \cup {Append(l, a) : l \in {u \in shorter : Len(u) = n - 1},
                                         a \in ParamAnnotations}

\* the workflow_id and step_id agent_action is given: the default, the
\* empty string, and the ones of code_agent_v2.py:339-340
WorkflowIds == {None, "", "code_generation"}
DecoStepIds == {None, "", "initiate"}

DecoInit ==
    /\ decoSig \in [params : ParamsUpTo(MaxParams), return : ReturnAnnotations,
                     workflow_id : WorkflowIds, step_id : DecoStepIds]
    /\ decoResult = [t |-> "none"]
    /\ SlugIdle
    /\ SchemaIdle
    /\ RegIdle
    /\ PathIdle
    /\ RenderIdle
    /\ ConcIdle
    /\ OthersIdle

\* @agent_action(...) over a def (code_agent.py:96-102)
DecoApply ==
    /\ decoResult.t = "none"
    /\ decoResult' = agent_action(decoSig)
    /\ UNCHANGED decoSig
    /\ UNCHANGED <<slugVars, schemaVars, regVars, pathVars, renderVars, concVars, reloadVars, llmVars, sessVars>>

DecoNext == DecoApply

SpecDecorate == DecoInit /\ [][DecoNext]_vars

\* a parameter whose type exposes schema extraction
HasInputType(sig) == \E i \in DOMAIN sig.params : sig.params[i].kind = "model"
\* a return annotation that resolves to a model, directly or unwrapped
HasOutputType(sig) ==
    \/ sig.return.kind = "model"
    \/ sig.return.kind = "generic" /\ sig.return.arg # ""

\* C11: agent_action applied to a handler without a parameter whose type
\* exposes schema extraction, or without a resolvable return type, raises:
\* it returns no wrapper that carries _endpoint_info.
C11_BadSignatureFailsDecoration ==
    (decoResult.t # "none" /\ ~(HasInputType(decoSig) /\ HasOutputType(decoSig)))
        => decoResult.t = "raise"

\* C11 witness: a handler with a str parameter only and a model as return
\* type was decorated, and the decoration raised
C11_Witness ==
    /\ decoSig.params = <<Plain>>
    /\ decoSig.return = Model("ChatOutput")
    /\ decoResult = ValidationError

\* C21: the metadata of the endpoint info of a handler decorated with a
\* workflow_id and a step_id carries that workflow_id and that step_id, and
\* the metadata of one decorated without either has both unset.
C21_MetadataCarriesWorkflowStep ==
    decoResult.t = "wrapper" =>
        LET metadata == decoResult._endpoint_info.metadata
        IN IF decoSig.workflow_id \notin {None, ""} /\ decoSig.step_id \notin {None, ""}
           THEN /\ metadata.workflow_id = decoSig.workflow_id
                /\ metadata.step_id = decoSig.step_id
           ELSE /\ metadata.workflow_id = None
                /\ metadata.step_id = None


(***************************************************************************)
(* The re-registration specification: setup_agent_routes step by step.     *)
(* The function takes no lock and get_agent_manifest takes none            *)
(* (manifest_generator.py:382-387, 414-418), so when setup_agent_routes    *)
(* runs on another thread than the event loop that serves the GET routes,  *)
(* a read falls between any two of its statements.  The startup state is   *)
(* the one of main.py: one agent sub-application, configured, with its     *)
(* decorated routes, mounted in the top-level application.                 *)
(*   concBefore and concAfter record, at the clearing, every registry's    *)
(* action_endpoints as they were and as the walk will leave them.          *)
(***************************************************************************)
\* the routes the agent sub-application starts with
ConcLeaves(h) == [kind |-> "leaf", path |-> CHOOSE path \in LeafPaths(h) : TRUE, target |-> h]
ConcRouteLists == {<<ConcLeaves(1)>>, <<ConcLeaves(2)>>,
                   <<ConcLeaves(1), ConcLeaves(2)>>, <<ConcLeaves(2), ConcLeaves(1)>>}

ConcInit ==
    /\ decorated = Wrappers
    /\ routePath = [h \in Handlers |-> << >>]
    /\ registries = <<AgentRegistry(IdDemo)>>
    /\ agent_registries = <<<<slugify(IdDemo.name), 1>>>>
    /\ appRegistry = [app \in Apps |-> IF app = 1 THEN 1 ELSE 0]
    /\ \E path \in MountPaths(Root, 1), leaves \in ConcRouteLists :
          routes = [app \in Apps |->
                       IF app = Root THEN <<[kind |-> "mount", path |-> path, target |-> 1]>>
                       ELSE IF app = 1 THEN leaves
                       ELSE << >>]
    /\ installed = << >>
    /\ manifest = NoManifest
    /\ manifestOf = 0
    /\ setupRuns = 0
    /\ runsSinceChange = 0
    /\ ConcIdle
    /\ OthersIdle
    /\ SlugIdle
    /\ SchemaIdle
    /\ PathIdle
    /\ RenderIdle
    /\ DecoIdle

\* every registry's action_endpoints
Endpoints(regs) == [r \in DOMAIN regs |-> regs[r].action_endpoints]

\* lines 384-385: the loop that clears every registry's action_endpoints
ConcClear ==
    /\ concPc = "idle"
    /\ setupRuns < MaxSetups
    /\ concBefore' = Endpoints(registries)
    /\ concAfter' = Endpoints(WalkResult.regs)
    /\ registries' = ClearRegistrations(registries)
    /\ concTodo' = Registrations(Root, 1, << >>)
    /\ concPc' = "walk"
    /\ manifest' = NoManifest
    /\ manifestOf' = 0
    /\ UNCHANGED <<routes, decorated, routePath, agent_registries, appRegistry, installed,
                   setupRuns, runsSinceChange>>
    /\ UNCHANGED <<slugVars, schemaVars, pathVars, renderVars, decoVars, reloadVars, llmVars, sessVars>>

\* lines 371-377: the walk registers the next endpoint it finds
ConcRegister ==
    /\ concPc = "walk"
    /\ concTodo # << >>
    /\ LET call == Head(concTodo)
           st == RegisterEndpoint([regs |-> registries, rp |-> routePath],
                                  call[1], call[2], call[3])
       IN /\ registries' = st.regs
          /\ routePath' = st.rp
    /\ concTodo' = Tail(concTodo)
    /\ manifest' = NoManifest
    /\ manifestOf' = 0
    /\ UNCHANGED <<routes, decorated, agent_registries, appRegistry, installed,
                   setupRuns, runsSinceChange>>
    /\ UNCHANGED <<concPc, concBefore, concAfter>>
    /\ UNCHANGED <<slugVars, schemaVars, pathVars, renderVars, decoVars, reloadVars, llmVars, sessVars>>

\* lines 389-456: the walk is over, the GET routes are added
ConcInstall ==
    /\ concPc = "walk"
    /\ concTodo = << >>
    /\ installed' = installed \o InstalledRoutes(registries)
    /\ setupRuns' = setupRuns + 1
    /\ runsSinceChange' = runsSinceChange + 1
    /\ concPc' = "idle"
    /\ manifest' = NoManifest
    /\ manifestOf' = 0
    /\ UNCHANGED <<routes, decorated, routePath, registries, agent_registries, appRegistry>>
    /\ UNCHANGED <<concTodo, concBefore, concAfter>>
    /\ UNCHANGED <<slugVars, schemaVars, pathVars, renderVars, decoVars, reloadVars, llmVars, sessVars>>

\* a route is added to the agent sub-application between two registrations
ConcAddRoute(h) ==
    /\ concPc = "idle"
    /\ AddRoute(1, h, CHOOSE path \in LeafPaths(h) : TRUE)

\* a GET of /agents/{slug}.json, at any moment
ConcRead(i) == GetAgentManifest(i)

ConcNext ==
    \/ ConcClear
    \/ ConcRegister
    \/ ConcInstall
    \/ \E h \in Wrappers : ConcAddRoute(h)
    \/ \E i \in DOMAIN installed : ConcRead(i)

SpecConc == ConcInit /\ [][ConcNext]_vars

\* the names of the actions of a list of endpoints, and of the manifest
EndpointNames(endpoints) == [i \in DOMAIN endpoints |-> HandlerName(endpoints[i][2])]
ManifestNames == [i \in DOMAIN manifest.actions |-> manifest.actions[i].name]

Leaf(h) == [kind |-> "leaf", path |-> CHOOSE path \in LeafPaths(h) : TRUE, target |-> h]

\* the two agents: their names have one slug, or two
ReloadIdentities == {<<IdDemo, IdLower>>, <<IdBlank, IdLower>>}

ReloadInit ==
    /\ decorated = Wrappers
    /\ routePath = [h \in Handlers |-> << >>]
    /\ \E ids \in ReloadIdentities :
          /\ registries = <<AgentRegistry(ids[1]), AgentRegistry(ids[2])>>
          /\ agent_registries = DictSet(DictSet(<< >>, slugify(ids[1].name), 1),
                                        slugify(ids[2].name), 2)
    /\ appRegistry = [app \in Apps |-> app]
    /\ routes = [app \in Apps |->
                    IF app = Root
                    THEN <<[kind |-> "mount", path |-> <<"/","v">>, target |-> 1],
                           [kind |-> "mount", path |-> <<"/","w">>, target |-> 2]>>
                    ELSE IF app = 1 THEN <<Leaf(1), Leaf(2)>>
                    ELSE <<Leaf(1)>>]
    /\ installed = << >>
    /\ manifest = NoManifest
    /\ manifestOf = 0
    /\ setupRuns = 0
    /\ runsSinceChange = 0
    /\ ConcIdle
    /\ OthersIdle
    /\ SlugIdle
    /\ SchemaIdle
    /\ PathIdle
    /\ RenderIdle
    /\ DecoIdle

\* app.routes.remove(route) on a sub-application: its route i is taken out
RemoveRoute(app, i) ==
    /\ i \in DOMAIN routes[app]
    /\ routes' = [routes EXCEPT ![app] = SubSeq(@, 1, i - 1) \o SubSeq(@, i + 1, Len(@))]
    /\ runsSinceChange' = 0
    /\ manifest' = NoManifest
    /\ manifestOf' = 0
    /\ UNCHANGED <<decorated, routePath, registries, agent_registries, appRegistry, installed, setupRuns>>
    /\ UNCHANGED <<slugVars, schemaVars, pathVars, renderVars, decoVars, concVars, reloadVars, llmVars, sessVars>>

\* a GET of /agents/{slug}.json; manifestPrev keeps the manifest of the GET
\* before when that was one of the same registry, right before this one
ReloadRead(i) ==
    /\ get_agent_manifest(i)
    /\ manifestPrev' = IF manifestOf = installed[i].reg THEN manifest ELSE NoManifest

ReloadNext ==
    \/ \E app \in SubApps : \E i \in DOMAIN routes[app] : RemoveRoute(app, i)
    \/ SetupAgentRoutes
    \/ \E i \in DOMAIN installed : ReloadRead(i)

SpecReload == ReloadInit /\ [][ReloadNext]_vars

\* the keys the walk of the routes as they are registers in registry r
DiscoveredKeys(r) ==
    LET calls == Registrations(Root, 1, << >>)
    IN {calls[i][2] : i \in {j \in DOMAIN calls : calls[j][1] = r}}

\* C23: after a run of setup_agent_routes, the keys of the action_endpoints
\* of every registry of an application of the route tree are the paths the
\* run discovered: a route taken out of the tree since the run before is no
\* key any more.
C23_RerunDropsRemovedRoutes ==
    runsSinceChange >= 1 =>
        \A r \in AgentsInTree(Root, 1) :
            DictKeys(registries[r].action_endpoints) = DiscoveredKeys(r)

\* C24: a generate_manifest call made on a registry right after another
\* one on the same registry, with no registration or configuration in
\* between, returns the manifest the first returned, with the same
\* inputSchema and outputSchema of every action.
C24_ConsecutiveManifestsEqual ==
    (manifestOf # 0 /\ manifestPrev.kind # "none") => manifest = manifestPrev

\* C24 witness: the second of two consecutive calls returned a manifest with
\* the action whose input model brings $defs, which the first call added to
\* schema_definitions
C24_Witness ==
    /\ manifestOf # 0
    /\ manifestPrev.kind = "manifest"
    /\ manifest.kind = "manifest"
    /\ \E i \in DOMAIN manifest.actions : manifest.actions[i].name = HandlerName(1)
    /\ "ChatMessage" \in DOMAIN registries[manifestOf].schema_definitions

(***************************************************************************)
(* LLMClient._make_request (llm_client.py): the retry loop around the      *)
(* POST.  A reply of the server is a response with a status and a body     *)
(* that is JSON or not, or a transport error raised by the post.  The loop *)
(* awaits the post, so one iteration is one step.                          *)
(***************************************************************************)
MAX_RETRIES == 2

RETRY_STATUSES == {502, 503, 504}

\* the statuses the server answers with
Statuses == {200, 400, 500} \cup RETRY_STATUSES

\* what self.http_client.post gives: a response, or httpx.ConnectError
Replies ==
    [t : {"response"}, status_code : Statuses, json : BOOLEAN]
        \cup {[t |-> "error", status_code |-> 0, json |-> FALSE]}

\* response.raise_for_status() raises for the 4xx and 5xx statuses
raise_for_status(response) == response.status_code >= 400

\* the body of the loop without the test of RETRY_STATUSES
_make_request_attempt_unchecked(attempt, reply) ==
    LET caught(e) == IF attempt < MAX_RETRIES - 1
                     THEN [t |-> "continue"]
                     ELSE [t |-> "raise", error |-> e]
    IN IF reply.t = "error" THEN caught("ConnectError")
       ELSE IF raise_for_status(reply) THEN caught("HTTPStatusError")
       ELSE IF ~reply.json THEN caught("JSONDecodeError")
       ELSE [t |-> "return", response |-> reply]

\* the body of the loop for one attempt: the outcome of the try block and
\* of its except clause
_make_request_attempt(attempt, reply) ==
    LET caught(e) == IF attempt < MAX_RETRIES - 1
                     THEN [t |-> "continue"]
                     ELSE [t |-> "raise", error |-> e]
    IN IF reply.t = "error" THEN caught("ConnectError")
       ELSE IF reply.status_code \in RETRY_STATUSES THEN [t |-> "continue"]
       ELSE IF raise_for_status(reply) THEN caught("HTTPStatusError")
       ELSE IF ~reply.json THEN caught("JSONDecodeError")
       ELSE [t |-> "return", response |-> reply]

\* the raise after the loop
AllRetriesFailed == [t |-> "raise", error |-> "RuntimeError: All retry attempts failed"]

\* the call: last_error = None and the loop is entered
MakeRequestCall ==
    /\ llmPc = "idle"
    /\ llmPc' = "post"
    /\ llmAttempt' = 0
    /\ UNCHANGED <<llmPosts, llmReplies, llmResult>>
    /\ UNCHANGED <<slugVars, schemaVars, regVars, pathVars, renderVars, decoVars,
                   concVars, reloadVars, sessVars>>

\* one iteration: the POST, its reply, and what the loop does with it; after
\* the last iteration's continue the loop ends and the function raises
MakeRequestAttempt(reply) ==
    /\ llmPc = "post"
    /\ llmAttempt < MAX_RETRIES
    /\ llmPosts' = llmPosts + 1
    /\ llmReplies' = Append(llmReplies, reply)
    /\ LET outcome == _make_request_attempt(llmAttempt, reply)
       IN IF outcome.t = "continue"
          THEN IF llmAttempt + 1 < MAX_RETRIES
               THEN /\ llmAttempt' = llmAttempt + 1
                    /\ UNCHANGED <<llmPc, llmResult>>
               ELSE /\ llmPc' = "done"
                    /\ llmResult' = AllRetriesFailed
                    /\ UNCHANGED llmAttempt
          ELSE /\ llmPc' = "done"
               /\ llmResult' = outcome
               /\ UNCHANGED llmAttempt
    /\ UNCHANGED <<slugVars, schemaVars, regVars, pathVars, renderVars, decoVars,
                   concVars, reloadVars, sessVars>>

LlmInit ==
    /\ SlugIdle /\ SchemaIdle /\ RegIdle /\ PathIdle /\ RenderIdle /\ DecoIdle
    /\ ConcIdle /\ ReloadIdle /\ SessIdle
    /\ LlmIdle

LlmNext ==
    \/ MakeRequestCall
    \/ \E reply \in Replies : MakeRequestAttempt(reply)

SpecLLM == LlmInit /\ [][LlmNext]_vars

\* a response the loop does not retry by its status: not in RETRY_STATUSES
\* and not an error status
StatusAccepted(reply) ==
    reply.t = "response" /\ reply.status_code \notin RETRY_STATUSES /\ reply.status_code < 400

\* the parts of the property that do not depend on which responses end the
\* loop: the bound on the POSTs, no returned 502, 503 or 504, and the error
\* raised when every attempt got one of them
RetryBounds ==
    /\ llmPosts = Len(llmReplies)
    /\ llmPosts <= MAX_RETRIES
    /\ llmResult.t = "return" =>
           /\ llmResult.response = llmReplies[Len(llmReplies)]
           /\ llmResult.response.status_code \notin RETRY_STATUSES
    /\ (/\ llmPc = "done"
        /\ \A i \in DOMAIN llmReplies :
               /\ llmReplies[i].t = "response"
               /\ llmReplies[i].status_code \in RETRY_STATUSES)
           => llmResult = AllRetriesFailed

\* C27 as stated: at most MAX_RETRIES POSTs, the call stops at the first
\* response whose status is neither retryable nor an error, it never
\* returns a 502, 503 or 504 response, and it raises 'All retry attempts
\* failed' when every attempt got such a status.
C27_StopsAtFirstAcceptedStatus ==
    /\ RetryBounds
    /\ \A i \in DOMAIN llmReplies :
           StatusAccepted(llmReplies[i]) =>
               /\ i = Len(llmReplies)
               /\ llmPc = "done"
               /\ llmResult.t = "return"

\* C27 amended: the same, with the call stopping at the first response
\* whose status is neither retryable nor an error and whose body is JSON; a
\* response with such a status and a body that is not JSON is retried like
\* an error, and raises JSONDecodeError on the last attempt.
C27_StopsAtFirstDecodedResponse ==
    /\ RetryBounds
    /\ \A i \in DOMAIN llmReplies :
           (StatusAccepted(llmReplies[i]) /\ llmReplies[i].json) =>
               /\ i = Len(llmReplies)
               /\ llmPc = "done"
               /\ llmResult = [t |-> "return", response |-> llmReplies[i]]
    /\ llmResult.t = "return" => llmReplies[Len(llmReplies)].json
    /\ \A i \in DOMAIN llmReplies :
           (StatusAccepted(llmReplies[i]) /\ ~llmReplies[i].json) =>
               IF i < MAX_RETRIES
               THEN llmPc = "done" => Len(llmReplies) = i + 1
               ELSE llmResult = [t |-> "raise", error |-> "JSONDecodeError"]

\* C27 witness: the first POST got a 200 with a body that is not JSON, the
\* second a 200 with a JSON body, which the call returned
C27_Witness ==
    /\ llmPc = "done"
    /\ Len(llmReplies) = MAX_RETRIES
    /\ llmReplies[1] = [t |-> "response", status_code |-> 200, json |-> FALSE]
    /\ llmResult = [t |-> "return",
                    response |-> [t |-> "response", status_code |-> 200, json |-> TRUE]]

(***************************************************************************)
(* The workflow sessions of code_agent_v2.py: SessionManager and the four  *)
(* handlers that use it.  A session id is the index of the uuid4 that made *)
(* it; a session's context is a dict; created_at is left out.              *)
(* generate_code_form asks the LLM and may raise.                          *)
(***************************************************************************)
MaxSessions == 4

\* the ids a request may name: those uuid4 can make, made or not
SessionIds == 1..MaxSessions

\* the initial_data of a start request: no message, an empty one, a message
InitialData == {[message |-> None], [message |-> ""], [message |-> "sort a list"]}

\* the step_id of a step request
RequestStepIds == {"execute", "initiate"}

\* self.sessions[session_id] = {"created_at": ..., "context": {}}
create_session(sess, session_id) == DictSet(sess, session_id, << >>)

\* self.sessions.get(session_id)
get_session(sess, session_id) ==
    IF session_id \in DictKeys(sess) THEN DictGet(sess, session_id) ELSE None

\* dict.update of the session's context, when the session exists
update_session(sess, session_id, context) ==
    LET RECURSIVE Update(_, _)
        Update(d, i) ==
            IF i > Len(context) THEN d
            ELSE Update(DictSet(d, context[i][1], context[i][2]), i + 1)
    IN IF session_id \in DictKeys(sess)
       THEN DictSet(sess, session_id, Update(DictGet(sess, session_id), 1))
       ELSE sess

\* the mutant that pops nothing
close_session_keep(sess, session_id) == sess

\* self.sessions.pop(session_id, None)
close_session(sess, session_id) ==
    SelectSeq(sess, LAMBDA pair : pair[1] # session_id)

\* an HTTPException
HTTPError(op, arg, found, status_code) ==
    [op |-> op, arg |-> arg, found |-> found, status |-> status_code, session_id |-> 0]

\* initiate_code_generation: the sessions it leaves and the session id it
\* answers with, 0 when it raises
initiate_code_generation(sess, next, message, formOk) ==
    LET session_id == next + 1
        created == create_session(sess, session_id)
        stored == update_session(created, session_id,
                                 <<<<"query", message>>, <<"initial_context", "{}">>>>)
    IN [sessions |-> stored,
        next |-> session_id,
        status |-> IF formOk THEN 200 ELSE 400,
        session_id |-> IF formOk THEN session_id ELSE 0]

\* execute_code_generation: the sessions it leaves and its status; the 404
\* of a missing session is raised inside the try block and caught by
\* `except Exception`, which raises a 400
execute_code_generation(sess, session_id) ==
    LET session == get_session(sess, session_id)
    IN IF session = None
       THEN [sessions |-> sess, status |-> 400]
       ELSE [sessions |-> close_session(sess, session_id), status |-> 200]

\* POST /workflow/{workflow_id}/start
StartWorkflow(workflow_id, initial_data, formOk) ==
    /\ sessNext + 2 <= MaxSessions
    /\ LET session_id == sessNext + 1
           created == create_session(sessions, session_id)
           stored == update_session(created, session_id,
                         <<<<"workflow_id", workflow_id>>,
                           <<"current_step", CODE_GENERATION_WORKFLOW.initial_step>>,
                           <<"data", initial_data.message>>>>)
       IN IF initial_data.message \notin {None, ""}
          THEN LET r == initiate_code_generation(stored, session_id,
                                                 initial_data.message, formOk)
               IN /\ sessions' = r.sessions
                  /\ sessNext' = r.next
                  /\ sessReply' = [op |-> "start_workflow", arg |-> 0, found |-> FALSE,
                                   status |-> r.status, session_id |-> r.session_id]
          ELSE /\ sessions' = stored
               /\ sessNext' = session_id
               /\ sessReply' = HTTPError("start_workflow", 0, FALSE, 400)
    /\ UNCHANGED sessUsed
    /\ UNCHANGED <<slugVars, schemaVars, regVars, pathVars, renderVars, decoVars,
                   concVars, reloadVars, llmVars>>

\* POST .../generate-code/initiate
InitiateCodeGeneration(message, formOk) ==
    /\ sessNext + 1 <= MaxSessions
    /\ LET r == initiate_code_generation(sessions, sessNext, message, formOk)
       IN /\ sessions' = r.sessions
          /\ sessNext' = r.next
          /\ sessReply' = [op |-> "initiate_code_generation", arg |-> 0, found |-> FALSE,
                           status |-> r.status, session_id |-> r.session_id]
    /\ UNCHANGED sessUsed
    /\ UNCHANGED <<slugVars, schemaVars, regVars, pathVars, renderVars, decoVars,
                   concVars, reloadVars, llmVars>>

\* POST /workflow/{workflow_id}/step/{step_id}
ExecuteWorkflowStep(step_id, session_id) ==
    LET found == get_session(sessions, session_id) # None
    IN /\ IF ~found
          THEN /\ sessReply' = HTTPError("execute_workflow_step", session_id, found, 404)
               /\ UNCHANGED <<sessions, sessUsed>>
          ELSE IF step_id = "execute"
          THEN LET r == execute_code_generation(sessions, session_id)
               IN /\ sessions' = r.sessions
                  /\ sessReply' = [op |-> "execute_workflow_step", arg |-> session_id,
                                   found |-> found, status |-> r.status,
                                   session_id |-> 0]
                  /\ sessUsed' = IF r.status = 200 THEN sessUsed \cup {session_id}
                                 ELSE sessUsed
          ELSE /\ sessReply' = HTTPError("execute_workflow_step", session_id, found, 400)
               /\ UNCHANGED <<sessions, sessUsed>>
       /\ UNCHANGED sessNext
       /\ UNCHANGED <<slugVars, schemaVars, regVars, pathVars, renderVars, decoVars,
                      concVars, reloadVars, llmVars>>

\* POST .../generate-code/execute
ExecuteCodeGeneration(session_id) ==
    LET found == get_session(sessions, session_id) # None
        r == execute_code_generation(sessions, session_id)
    IN /\ sessions' = r.sessions
       /\ sessReply' = [op |-> "execute_code_generation", arg |-> session_id,
                        found |-> found, status |-> r.status, session_id |-> 0]
       /\ sessUsed' = IF r.status = 200 THEN sessUsed \cup {session_id} ELSE sessUsed
       /\ UNCHANGED sessNext
       /\ UNCHANGED <<slugVars, schemaVars, regVars, pathVars, renderVars, decoVars,
                      concVars, reloadVars, llmVars>>

SessInit ==
    /\ SlugIdle /\ SchemaIdle /\ RegIdle /\ PathIdle /\ RenderIdle /\ DecoIdle
    /\ ConcIdle /\ ReloadIdle /\ LlmIdle
    /\ SessIdle

SessNext ==
    \/ \E workflow_id \in {"code_generation"}, initial_data \in InitialData, formOk \in BOOLEAN :
           StartWorkflow(workflow_id, initial_data, formOk)
    \/ \E formOk \in BOOLEAN : InitiateCodeGeneration("sort a list", formOk)
    \/ \E step_id \in RequestStepIds, session_id \in SessionIds :
           ExecuteWorkflowStep(step_id, session_id)
    \/ \E session_id \in SessionIds : ExecuteCodeGeneration(session_id)

SpecSession == SessInit /\ [][SessNext]_vars

\* the sessions that hold a workflow's state
WorkflowSessions(sess) ==
    {sess[i][1] : i \in {j \in DOMAIN sess : "workflow_id" \in DictKeys(sess[j][2])}}

\* C28: when start_workflow answers, the session id it returns is that of
\* the session in which it stored workflow_id, current_step and data, and
\* that session is the only one the call has added; a call that fails adds
\* none.
C28_StartReturnsWorkflowSession ==
    [][(sessReply'.op = "start_workflow" /\ sessNext' # sessNext) =>
           LET added == DictKeys(sessions') \ DictKeys(sessions)
           IN IF sessReply'.status = 200
              THEN /\ added = {sessReply'.session_id}
                   /\ sessReply'.session_id \in WorkflowSessions(sessions')
              ELSE added = {}]_vars

\* C29: once execute_code_generation has succeeded for a session id the
\* session is gone, and every later execute_code_generation or
\* execute_workflow_step naming that id is rejected and leaves the sessions
\* as they were.
C29_ExecuteAtMostOnce ==
    /\ [](sessUsed \cap DictKeys(sessions) = {})
    /\ [][(/\ sessReply'.op \in {"execute_code_generation", "execute_workflow_step"}
           /\ sessReply'.arg \in sessUsed)
              => (sessReply'.status # 200 /\ sessions' = sessions /\ sessUsed' = sessUsed)]_vars

\* C29 witness: a step request naming a session that execute_code_generation
\* had closed was rejected, while another session was open
C29_Witness ==
    /\ sessReply.op = "execute_workflow_step"
    /\ sessReply.arg \in sessUsed
    /\ sessReply.status = 404
    /\ sessions # << >>

\* C30: a request that names a session id that does not exist is answered
\* with status 404, by execute_workflow_step and by execute_code_generation.
C30_MissingSessionIs404 ==
    (/\ sessReply.op \in {"execute_code_generation", "execute_workflow_step"}
     /\ ~sessReply.found)
        => sessReply.status = 404

=============================================================================
